---------------------------- MODULE Spec2Model ----------------------------
(***************************************************************************)
(* Tab geometry and layout engine of zellij-server (src/tab.rs).           *)
(*                                                                         *)
(* A Tab owns a map PaneId -> Pane.  Every pane has a base geometry        *)
(* (position_and_size), an optional geometry override (fullscreen) and a   *)
(* selectable flag.  A geometry is {x, y, cols, rows} where cols and rows  *)
(* are Dimensions: a constraint (Percent(p) or Fixed(n)) plus the number   *)
(* of cells the dimension currently occupies (as_usize).                   *)
(*                                                                         *)
(* Percentages are f64 in the program.  All percentages the program        *)
(* computes here are sums and differences of 100, 3.5 and halves of        *)
(* those, so they are dyadic rationals that f64 represents exactly; the    *)
(* model keeps them as integers in units of 1/PercentUnit percent.         *)
(***************************************************************************)
EXTENDS Integers, Sequences, FiniteSets, TLC

(***************************************************************************)
(* Bounds of the model.                                                    *)
(***************************************************************************)
\* the terminal window the tab is created with
DisplayCols == 80
DisplayRows == 24
\* file descriptors handed out by the PTY host: Terminal(1) .. Terminal(MaxPid)
MaxPid == 3
\* number of commands the tab receives in one run
MaxSteps == 5

(***************************************************************************)
(* Program constants.                                                      *)
(***************************************************************************)
CURSOR_HEIGHT_WIDTH_RATIO == 4
MIN_TERMINAL_HEIGHT == 5
MIN_TERMINAL_WIDTH == 5
\* one percent, in model units (2^9: nine halvings of a whole percent are exact)
PercentUnit == 2 ^ 9
\* const RESIZE_PERCENT: f64 = 3.5
RESIZE_PERCENT == (7 * PercentUnit) \div 2

\* Option::None of a pane id or of a count
None == 0
\* Option::None of a geometry, of a list of pane ids, of a pair of geometries
NoGeom == <<>>   \* Some(geom) is <<geom>>
NoIds == <<>>
NoSplit == <<>>
\* no side
NoSide == "None"
PaneIds == 1 .. MaxPid

(***************************************************************************)
(* Small helpers.                                                          *)
(***************************************************************************)
Min(a, b) == IF a <= b THEN a ELSE b
Max(a, b) == IF a >= b THEN a ELSE b

SumSeq(s) ==
    LET sum[k \in 0 .. Len(s)] == IF k = 0 THEN 0 ELSE sum[k - 1] + s[k]
    IN  sum[Len(s)]

RemoveAt(s, i) == SubSeq(s, 1, i - 1) \o SubSeq(s, i + 1, Len(s))

\* a function over 1 .. n as the sequence it is
AsSeq(f) == f \o <<>>

Reverse(s) == AsSeq([i \in 1 .. Len(s) |-> s[Len(s) + 1 - i]])

SelectIn(s, S) == SelectSeq(s, LAMBDA e : e \in S)

Range(s) == {s[i] : i \in 1 .. Len(s)}

\* Vec::sort_by_key: a stable sort of the sequence s by the key k[e]
StableSort(s, k) ==
    LET before(i) == Cardinality({j \in 1 .. Len(s) :
                         \/ k[s[j]] < k[s[i]]
                         \/ (k[s[j]] = k[s[i]] /\ j < i)})
    IN  AsSeq([r \in 1 .. Len(s) |->
                  s[CHOOSE i \in 1 .. Len(s) : before(i) = r - 1]])

\* the elements of a set of integers in increasing order (BTreeMap iteration)
SetToSeq(S) ==
    AsSeq([r \in 1 .. Cardinality(S) |->
              CHOOSE m \in S : Cardinality({e \in S : e < m}) = r - 1])

(***************************************************************************)
(* Geometry primitives: Dimension, PaneGeom, Viewport.                     *)
(***************************************************************************)
\* Dimension::percent(p): the cell count is 1 until the tab is laid out
DimPercent(p) == [fixed |-> FALSE, v |-> p, inner |-> 1]
\* Dimension::fixed(n)
DimFixed(n) == [fixed |-> TRUE, v |-> n, inner |-> 1]
\* PaneGeom::default(): the whole parent, at the origin
DefaultGeom == [x |-> 0, y |-> 0,
                cols |-> DimPercent(100 * PercentUnit),
                rows |-> DimPercent(100 * PercentUnit)]

\* fn split_vertically(rect)
split_vertically(rect) ==
    IF rect.cols.fixed THEN NoSplit
    ELSE LET first_rect == [rect EXCEPT !.cols = DimPercent(rect.cols.v \div 2)]
             second_rect == [rect EXCEPT !.x = first_rect.x + 1,
                                         !.cols = first_rect.cols]
         IN  <<first_rect, second_rect>>

\* a faulty split: the first half keeps the whole share of the rows
SplitHorizontallyUneven(rect) ==
    IF rect.rows.fixed THEN NoSplit
    ELSE <<rect, [rect EXCEPT !.y = rect.y + 1,
                              !.rows = DimPercent(rect.rows.v \div 2)]>>
\* fn split_horizontally(rect)
split_horizontally(rect) ==
    IF rect.rows.fixed THEN NoSplit
    ELSE LET first_rect == [rect EXCEPT !.rows = DimPercent(rect.rows.v \div 2)]
             second_rect == [rect EXCEPT !.y = first_rect.y + 1,
                                         !.rows = first_rect.rows]
         IN  <<first_rect, second_rect>>

(***************************************************************************)
(* Pane capability (trait Pane and its terminal implementation).           *)
(***************************************************************************)
\* TerminalPane::new(pid, geom, ..); active_at is the instant of the creation
NewTerminalPane(geom, instant) ==
    [geom |-> geom, geom_override |-> NoGeom, selectable |-> TRUE,
     active_at |-> instant]

\* the geometry the pane is drawn with: the override when there is one
CurrentGeom(p) == IF p.geom_override = NoGeom THEN p.geom ELSE p.geom_override[1]
PaneX(p) == CurrentGeom(p).x
PaneY(p) == CurrentGeom(p).y
PaneCols(p) == CurrentGeom(p).cols.inner
PaneRows(p) == CurrentGeom(p).rows.inner

\* Pane::increase_width_*, reduce_width_*: Fixed panes ignore resize
ChangeWidth(p, delta) ==
    IF p.geom.cols.fixed THEN p
    ELSE [p EXCEPT !.geom.cols = DimPercent(p.geom.cols.v + delta)]
\* Pane::increase_height_*, reduce_height_*
ChangeHeight(p, delta) ==
    IF p.geom.rows.fixed THEN p
    ELSE [p EXCEPT !.geom.rows = DimPercent(p.geom.rows.v + delta)]

(***************************************************************************)
(* Pane resizer (ui::pane_resizer::PaneResizer): derives the cell          *)
(* coordinates of every pane on one axis from the Percent / Fixed          *)
(* constraints.  The panes are grouped into the rows (columns) of a grid   *)
(* cut at every pane edge of the other axis; in each row the sizes must    *)
(* add up to the space, Fixed sizes are kept and Percent sizes share what  *)
(* is left in proportion; the sizes are rounded to cells, the rounding     *)
(* error of a row is given to its flexible panes one cell each, and the    *)
(* positions are the running sums of the sizes.                            *)
(***************************************************************************)
Perpendicular(direction) ==
    IF direction = "Horizontal" THEN "Vertical" ELSE "Horizontal"
SpanPos(g, direction) == IF direction = "Horizontal" THEN g.x ELSE g.y
SpanSize(g, direction) == IF direction = "Horizontal" THEN g.cols ELSE g.rows
SpanEnd(g, direction) == SpanPos(g, direction) + SpanSize(g, direction).inner

Bwn(v, s, e) == s <= v /\ v < e

\* the bands between the sorted edges es, the first one starting at 0
Bands(es) ==
    AsSeq([k \in 1 .. Len(es) |-> <<IF k = 1 THEN 0 ELSE es[k - 1], es[k]>>])

\* the bands of the other axis, cut at every pane edge
grid_boundaries(panes, direction) ==
    Bands(SetToSeq({SpanEnd(panes[i].geom, Perpendicular(direction)) :
                       i \in DOMAIN panes}))

\* the span s .. e crosses the band b
InBand(s, e, b) ==
    \/ Bwn(s, b[1], b[2])
    \/ (Bwn(b[1], s, e) /\ (Bwn(b[2], s, e) \/ b[2] = e))

\* the panes crossing one band, ordered by position along the axis
spans_in_boundary(panes, direction, b) ==
    StableSort(SetToSeq({i \in DOMAIN panes :
                            InBand(SpanPos(panes[i].geom, Perpendicular(direction)),
                                   SpanEnd(panes[i].geom, Perpendicular(direction)),
                                   b)}),
               [i \in DOMAIN panes |-> SpanPos(panes[i].geom, direction)])

\* one row (column) of panes per band
Grid(panes, direction, bounds) ==
    AsSeq([k \in 1 .. Len(bounds) |->
              spans_in_boundary(panes, direction, bounds[k])])

RoundDiv(num, den) == (2 * num + den) \div (2 * den)

\* the cells the Fixed spans of a row take
FixedSum(panes, direction, row) ==
    SumSeq([k \in 1 .. Len(row) |->
               IF SpanSize(panes[row[k]].geom, direction).fixed
               THEN SpanSize(panes[row[k]].geom, direction).v ELSE 0])
\* space left in a row once its Fixed spans are served (saturating)
Saturating(space, fixed) == IF fixed >= space THEN 0 ELSE space - fixed
FlexSpace(panes, direction, row, space) ==
    Saturating(space, FixedSum(panes, direction, row))
\* the Percent shares of a row
PercentSum(panes, direction, row) ==
    SumSeq([k \in 1 .. Len(row) |->
               IF SpanSize(panes[row[k]].geom, direction).fixed
               THEN 0 ELSE SpanSize(panes[row[k]].geom, direction).v])

\* the constraints of the rows agree on every pane they share
GridSolvable(panes, direction, grid, space) ==
    /\ \A r \in 1 .. Len(grid) :
           IF \A i \in Range(grid[r]) : SpanSize(panes[i].geom, direction).fixed
           THEN FixedSum(panes, direction, grid[r]) = space
           ELSE PercentSum(panes, direction, grid[r]) > 0
    /\ \A r1, r2 \in 1 .. Len(grid) :
           (\E i \in Range(grid[r1]) \cap Range(grid[r2]) :
                ~SpanSize(panes[i].geom, direction).fixed) =>
               FlexSpace(panes, direction, grid[r1], space)
                       * PercentSum(panes, direction, grid[r2])
                 = FlexSpace(panes, direction, grid[r2], space)
                       * PercentSum(panes, direction, grid[r1])

\* the rounded size of a span d of the row
SolvedSize(panes, direction, row, space, d) ==
    IF d.fixed THEN d.v
    ELSE RoundDiv(d.v * FlexSpace(panes, direction, row, space),
                  PercentSum(panes, direction, row))
\* the rounded size of every pane before the rounding errors are spread
SolvedSizes(panes, direction, grid, space) ==
    [i \in DOMAIN panes |->
        SolvedSize(panes, direction,
                   grid[CHOOSE r \in 1 .. Len(grid) : i \in Range(grid[r])],
                   space, SpanSize(panes[i].geom, direction))]

\* one cell more (less) for the first n of the spans
Adjust(sizes, ordered, n, sgn) ==
    [i \in DOMAIN sizes |->
        IF \E j \in 1 .. n : ordered[j] = i THEN sizes[i] + sgn ELSE sizes[i]]
\* the rounding error of a row goes to its flexible spans that no earlier
\* row has settled, the smallest first (the largest first when it is negative)
SpreadRow(sizes, sorted, error) ==
    IF error < 0
    THEN Adjust(sizes, Reverse(sorted), Min(-error, Len(sorted)), -1)
    ELSE Adjust(sizes, sorted, Min(error, Len(sorted)), 1)
SpreadStep(panes, direction, row, space, acc) ==
    [sizes |-> SpreadRow(acc.sizes,
                   StableSort(SelectSeq(row, LAMBDA i :
                                  ~SpanSize(panes[i].geom, direction).fixed
                                  /\ i \notin acc.finalised),
                              acc.sizes),
                   space - SumSeq([j \in 1 .. Len(row) |-> acc.sizes[row[j]]])),
     finalised |-> acc.finalised \cup Range(row)]
\* spread the rounding error of every row over its flexible spans
SpreadErrors(panes, direction, grid, space, sizes) ==
    LET acc[k \in 0 .. Len(grid)] ==
            IF k = 0 THEN [sizes |-> sizes, finalised |-> {}]
            ELSE SpreadStep(panes, direction, grid[k], space, acc[k - 1])
    IN  acc[Len(grid)].sizes

\* the last row that holds the pane
LastRow(grid, i) ==
    CHOOSE r \in 1 .. Len(grid) :
        /\ i \in Range(grid[r])
        /\ \A r2 \in 1 .. Len(grid) : i \in Range(grid[r2]) => r2 <= r
\* the position of the j-th span of a row: the sizes before it added up
PosIn(row, sizes, j) == SumSeq([m \in 1 .. j - 1 |-> sizes[row[m]]])
PosOfIn(row, sizes, i) ==
    PosIn(row, sizes, CHOOSE j \in 1 .. Len(row) : row[j] = i)
\* the position a pane gets: the one of the last row that holds it
PosOf(grid, sizes, i) == PosOfIn(grid[LastRow(grid, i)], sizes, i)

\* the pane with its new position and size on the axis
LaidOut(pane, direction, pos, size) ==
    IF direction = "Horizontal"
    THEN [pane EXCEPT !.geom.x = pos, !.geom.cols.inner = size]
    ELSE [pane EXCEPT !.geom.y = pos, !.geom.rows.inner = size]

\* the panes with the solved sizes, unless a span would get no cell
Place(panes, direction, grid, sizes) ==
    IF \E i \in DOMAIN panes : sizes[i] < 1
    THEN [ok |-> FALSE, panes |-> panes]
    ELSE [ok |-> TRUE,
          panes |-> [i \in DOMAIN panes |->
                        LaidOut(panes[i], direction, PosOf(grid, sizes, i), sizes[i])]]

Solve(panes, direction, space, grid) ==
    IF ~GridSolvable(panes, direction, grid, space)
    THEN [ok |-> FALSE, panes |-> panes]
    ELSE Place(panes, direction, grid,
               SpreadErrors(panes, direction, grid, space,
                            SolvedSizes(panes, direction, grid, space)))

\* PaneResizer::resize(direction, space): ok is FALSE when the constraints
\* cannot be met or a span would get no cell; the panes are then untouched
PaneResizer_resize(panes, direction, space) ==
    Solve(panes, direction, space,
          Grid(panes, direction, grid_boundaries(panes, direction)))

(***************************************************************************)
(* Partition index: spatial queries over the pane map of a tab t.          *)
(* A side is "Left", "Right", "Up" or "Down"; an axis is "x" or "y".       *)
(***************************************************************************)
Sides == {"Left", "Right", "Up", "Down"}
Opposite(side) ==
    CASE side = "Left" -> "Right" [] side = "Right" -> "Left"
      [] side = "Up" -> "Down" [] side = "Down" -> "Up"
\* the axis a resize towards side changes
IsHorizontalSide(side) == side \in {"Left", "Right"}

Pos(p, axis) == IF axis = "x" THEN PaneX(p) ELSE PaneY(p)
Size(p, axis) == IF axis = "x" THEN PaneCols(p) ELSE PaneRows(p)
End(p, axis) == Pos(p, axis) + Size(p, axis)

\* Tab::get_pane_ids: the keys of the BTreeMap, in order
get_pane_ids(t) == SetToSeq(DOMAIN t.panes)

\* Tab::pane_ids_directly_left_of / right_of / above / below
pane_ids_directly(t, side, id) ==
    LET c == t.panes[id]
        touches(p) ==
            CASE side = "Left" -> PaneX(p) + PaneCols(p) = PaneX(c)
              [] side = "Right" -> PaneX(p) = PaneX(c) + PaneCols(c)
              [] side = "Down" -> PaneY(p) = PaneY(c) + PaneRows(c)
              [] side = "Up" -> PaneY(p) + PaneRows(p) = PaneY(c)
        ids == SelectSeq(get_pane_ids(t), LAMBDA i : touches(t.panes[i]))
    IN  IF side = "Left" /\ PaneX(c) = 0 THEN NoIds ELSE ids

\* Tab::panes_top / bottom / right / left_aligned_with_pane
panes_aligned_with_pane(t, side, id) ==
    LET c == t.panes[id]
        aligned(p) ==
            CASE side = "Up" -> PaneY(p) = PaneY(c)
              [] side = "Down" -> PaneY(p) + PaneRows(p) = PaneY(c) + PaneRows(c)
              [] side = "Right" -> PaneX(p) + PaneCols(p) = PaneX(c) + PaneCols(c)
              [] side = "Left" -> PaneX(p) = PaneX(c)
    IN  SelectSeq(get_pane_ids(t), LAMBDA i : i # id /\ aligned(t.panes[i]))

\* one pane of the walk towards smaller coordinates: it joins the band when
\* it ends where the band starts
ChainBeforeStep(p, axis, id, acc) ==
    IF End(p, axis) = acc.frontier
    THEN [ids |-> Append(acc.ids, id), frontier |-> Pos(p, axis)]
    ELSE acc
\* the panes of the sorted sequence that abut the running frontier, walking
\* towards smaller coordinates
ChainBefore(t, axis, sorted, start) ==
    LET acc[k \in 0 .. Len(sorted)] ==
            IF k = 0 THEN [ids |-> <<>>, frontier |-> start]
            ELSE ChainBeforeStep(t.panes[sorted[k]], axis, sorted[k], acc[k - 1])
    IN  acc[Len(sorted)].ids
\* the same, walking towards larger coordinates
ChainAfterStep(p, axis, id, acc) ==
    IF Pos(p, axis) = acc.frontier
    THEN [ids |-> Append(acc.ids, id), frontier |-> End(p, axis)]
    ELSE acc
ChainAfter(t, axis, sorted, start) ==
    LET acc[k \in 0 .. Len(sorted)] ==
            IF k = 0 THEN [ids |-> <<>>, frontier |-> start]
            ELSE ChainAfterStep(t.panes[sorted[k]], axis, sorted[k], acc[k - 1])
    IN  acc[Len(sorted)].ids

\* the axis along which the panes aligned on a side are stacked
AxisAlong(side) == IF IsHorizontalSide(side) THEN "y" ELSE "x"
\* the far edge of the viewport on an axis
FarEdge(t, axis) ==
    IF axis = "y" THEN t.viewport.y + t.viewport.rows
    ELSE t.viewport.x + t.viewport.cols
\* the greatest of the borders, 0 when there is none
GreatestBorder(stops) ==
    IF stops = {} THEN 0 ELSE CHOOSE b \in stops : \A b2 \in stops : b2 <= b
\* the least of the borders before far, far when there is none
LeastBorder(stops, far) ==
    IF \A b \in stops : b >= far THEN far
    ELSE CHOOSE b \in stops : b < far /\ \A b2 \in stops : b <= b2
\* the border of the band, or of the pane itself when the band is empty
BorderAndPaneIds(own, resize_border, kept) ==
    <<IF kept = <<>> THEN own ELSE resize_border, kept>>
RetainFrom(t, axis, own, terminals, resize_border) ==
    BorderAndPaneIds(own, resize_border,
        SelectSeq(terminals, LAMBDA i : Pos(t.panes[i], axis) >= resize_border))
RetainUpTo(t, axis, own, terminals, resize_border) ==
    BorderAndPaneIds(own, resize_border,
        SelectSeq(terminals, LAMBDA i : End(t.panes[i], axis) <= resize_border))
BandBefore(t, axis, own, terminals, borders) ==
    RetainFrom(t, axis, own, terminals,
        GreatestBorder({End(t.panes[i], axis) : i \in Range(terminals)} \cap borders))
BandAfter(t, axis, own, terminals, borders) ==
    RetainUpTo(t, axis, own, terminals,
        LeastBorder({Pos(t.panes[i], axis) : i \in Range(terminals)} \cap borders,
                    FarEdge(t, axis)))

\* Tab::right_aligned_contiguous_panes_above, left_aligned_.._above,
\* top_aligned_.._to_the_left, bottom_aligned_.._to_the_left:
\* <<border, pane ids>> of the band of aligned panes before the pane
aligned_contiguous_panes_before(t, side, id, borders) ==
    BandBefore(t, AxisAlong(side), Pos(t.panes[id], AxisAlong(side)),
        ChainBefore(t, AxisAlong(side),
            StableSort(panes_aligned_with_pane(t, side, id),
                       [i \in DOMAIN t.panes |-> 0 - Pos(t.panes[i], AxisAlong(side))]),
            Pos(t.panes[id], AxisAlong(side))),
        borders)

\* Tab::right_aligned_contiguous_panes_below, left_aligned_.._below,
\* top_aligned_.._to_the_right, bottom_aligned_.._to_the_right
aligned_contiguous_panes_after(t, side, id, borders) ==
    BandAfter(t, AxisAlong(side), End(t.panes[id], AxisAlong(side)),
        ChainAfter(t, AxisAlong(side),
            StableSort(panes_aligned_with_pane(t, side, id),
                       [i \in DOMAIN t.panes |-> Pos(t.panes[i], AxisAlong(side))]),
            End(t.panes[id], AxisAlong(side))),
        borders)

\* Tab::pane_is_between_vertical_borders / _horizontal_borders
pane_is_between_borders(t, axis, id, low, high) ==
    Pos(t.panes[id], axis) >= low /\ End(t.panes[id], axis) <= high

(***************************************************************************)
(* The tab.  A tab value t is the record of the fields of struct Tab that  *)
(* the layout engine reads and writes; panicked records that an unwrap()   *)
(* or expect() of the operation failed (the server thread is gone).        *)
(***************************************************************************)
Panic(t) == [t EXCEPT !.panicked = TRUE]

\* PtyInstruction::ClosePane(pid), and senders.send_to_pty: sent holds the
\* messages the operation under way has put on its channels, in order
PtyClose(pid) == [kind |-> "PtyClose", id |-> pid, panes |-> {}]
send_to_pty(t, message) == [t EXCEPT !.sent = Append(@, message)]
\* ServerInstruction::Render(output): panes are the panes whose output the
\* string may hold
Render(ids) == [kind |-> "Render", id |-> None, panes |-> ids]
send_to_server(t, message) == [t EXCEPT !.sent = Append(@, message)]

\* Tab::new(.., viewport, .., pane_id, ..)
Tab_new(viewport, max_panes, pane_id, session_state) ==
    [panes |-> IF pane_id = None
               THEN [i \in {} |-> NewTerminalPane(DefaultGeom, 0)]
               ELSE [i \in {pane_id} |-> NewTerminalPane(DefaultGeom, 0)],
     panes_to_hide |-> {},
     active_terminal |-> pane_id,
     max_panes |-> max_panes,
     viewport |-> viewport,
     display_area |-> [rows |-> viewport.rows, cols |-> viewport.cols],
     fullscreen_is_active |-> FALSE,
     session_state |-> session_state,
     should_clear_display_before_rendering |-> FALSE,
     now |-> IF pane_id = None THEN 0 ELSE 1,
     sent |-> <<>>,
     panicked |-> FALSE]

has_panes(t) == DOMAIN t.panes # {}
\* Tab::get_selectable_panes, in key order
get_selectable_panes(t) ==
    SelectSeq(get_pane_ids(t), LAMBDA i : t.panes[i].selectable)
has_selectable_panes(t) == get_selectable_panes(t) # <<>>

\* a faulty walk: from the front, the first selectable pane is taken
FirstSelectablePane(t, ids) ==
    LET sel == SelectSeq(ids, LAMBDA i : t.panes[i].selectable)
    IN  IF sel = <<>> THEN None ELSE sel[1]
\* Tab::next_active_pane: the last selectable pane of the list
next_active_pane(t, ids) ==
    LET sel == SelectSeq(ids, LAMBDA i : t.panes[i].selectable)
    IN  IF sel = <<>> THEN None ELSE sel[Len(sel)]

\* Instant::now(): now is the next instant the monotonic clock gives
Tick(t) == [t EXCEPT !.now = @ + 1]
\* the loop of render over the panes that are not hidden: the active pane
\* takes the instant of the render as its active_at
StampActive(t) ==
    IF t.active_terminal \in DOMAIN t.panes \ t.panes_to_hide
    THEN Tick([t EXCEPT !.panes[t.active_terminal].active_at = t.now])
    ELSE t
\* Tab::render
\* render whatever the state of the session
RenderAlways(t) ==
    IF t.panicked THEN t
    ELSE IF t.active_terminal = None THEN t
    ELSE send_to_server(
             StampActive([t EXCEPT !.should_clear_display_before_rendering = FALSE]),
             Render(DOMAIN t.panes \ t.panes_to_hide))
\* Tab::render
render(t) ==
    IF t.panicked THEN t
    ELSE IF t.active_terminal = None \/ t.session_state # "Attached" THEN t
    ELSE send_to_server(
             StampActive([t EXCEPT !.should_clear_display_before_rendering = FALSE]),
             Render(DOMAIN t.panes \ t.panes_to_hide))

\* Tab::is_inside_viewport (rows only, on the base geometry)
is_inside_viewport(t, id) ==
    LET g == t.panes[id].geom
    IN  /\ g.y >= t.viewport.y
        /\ g.y + g.rows.inner <= t.viewport.y + t.viewport.rows

\* Tab::relayout_tab(direction)
relayout_tab(t, direction) ==
    [t EXCEPT !.panes =
        PaneResizer_resize(t.panes, direction,
            IF direction = "Horizontal" THEN t.display_area.cols
            ELSE t.display_area.rows).panes]

\* the tab takes the columns the resizer laid out, if it did
AdoptCols(t, size, resized) ==
    IF resized.ok
    THEN [t EXCEPT !.panes = resized.panes,
                   !.should_clear_display_before_rendering = TRUE,
                   !.viewport.cols = @ + (size.cols - t.display_area.cols),
                   !.display_area.cols = size.cols]
    ELSE t
\* the tab takes the rows the resizer laid out, if it did
AdoptRows(t, size, resized) ==
    IF resized.ok
    THEN [t EXCEPT !.panes = resized.panes,
                   !.should_clear_display_before_rendering = TRUE,
                   !.viewport.rows = @ + (size.rows - t.display_area.rows),
                   !.display_area.rows = size.rows]
    ELSE t
\* a faulty resize: the tab takes the columns, laid out or not
TakeCols(t, size) ==
    [AdoptCols(t, size, PaneResizer_resize(t.panes, "Horizontal", size.cols))
        EXCEPT !.display_area.cols = size.cols]
ResizeCols(t, size) ==
    AdoptCols(t, size, PaneResizer_resize(t.panes, "Horizontal", size.cols))
ResizeRows(t, size) ==
    AdoptRows(t, size, PaneResizer_resize(t.panes, "Vertical", size.rows))

\* Tab::resize_whole_tab(new_screen_size)
resize_whole_tab(t, size) == ResizeRows(ResizeCols(t, size), size)

\* the panes entering fullscreen hides
PaneIdsToHide(t) ==
    {id \in DOMAIN t.panes : id # t.active_terminal /\ is_inside_viewport(t, id)}
\* the tab once the hidden panes are shown and the override is reset
ExitFullscreen(t) ==
    [t EXCEPT !.panes_to_hide = {},
              !.panes[t.active_terminal].geom_override = NoGeom]
\* the tab once the other panes are hidden and the active pane is overridden
EnterFullscreen(t) ==
    [t EXCEPT !.panes_to_hide = PaneIdsToHide(t),
              !.panes[t.active_terminal].geom_override =
                  <<[DefaultGeom EXCEPT !.x = t.viewport.x, !.y = t.viewport.y]>>]
\* an unwrap() of the toggle finds no pane
ToggleUnwrapFails(t) ==
    IF t.fullscreen_is_active
    THEN ~(t.panes_to_hide \subseteq DOMAIN t.panes)
            \/ t.active_terminal \notin DOMAIN t.panes
    ELSE t.active_terminal \notin DOMAIN t.panes
\* the tail of the toggle: lay the tab out again and flip the flag
FinishToggle(t) ==
    [render(resize_whole_tab(t, t.display_area))
        EXCEPT !.fullscreen_is_active = ~t.fullscreen_is_active]

\* Tab::toggle_active_pane_fullscreen
toggle_active_pane_fullscreen(t) ==
    IF t.active_terminal = None THEN t
    ELSE IF ~t.fullscreen_is_active /\ PaneIdsToHide(t) = {}
    THEN [t EXCEPT !.panes_to_hide = {}]
    ELSE IF ToggleUnwrapFails(t) THEN Panic(t)
    ELSE FinishToggle(IF t.fullscreen_is_active
                      THEN ExitFullscreen(t) ELSE EnterFullscreen(t))

(***************************************************************************)
(* Close (Engine D, close path).                                           *)
(***************************************************************************)
\* Tab::horizontal_borders / vertical_borders
borders_of(t, axis, ids) ==
    UNION {{Pos(t.panes[i], axis), End(t.panes[i], axis) + 1} : i \in Range(ids)}

\* the neighbours between the two borders, when both are borders of neighbours
BetweenBorders(t, axis, neighbours, low_close_border, high_close_border) ==
    IF neighbours = NoIds THEN [some |-> FALSE, ids |-> <<>>]
    ELSE IF {low_close_border, high_close_border}
                \subseteq borders_of(t, axis, neighbours)
    THEN [some |-> TRUE,
          ids |-> SelectSeq(neighbours, LAMBDA i :
                     pane_is_between_borders(t, axis, i,
                         low_close_border, high_close_border))]
    ELSE [some |-> FALSE, ids |-> <<>>]

\* Tab::panes_to_the_left / to_the_right / above / below _between_aligning_borders
panes_between_aligning_borders(t, side, id) ==
    IF id \notin DOMAIN t.panes THEN [some |-> FALSE, ids |-> <<>>]
    ELSE BetweenBorders(t, AxisAlong(side), pane_ids_directly(t, side, id),
                        Pos(t.panes[id], AxisAlong(side)),
                        End(t.panes[id], AxisAlong(side)) + 1)

\* apply a Percent delta to the width (height) of every pane of a list
ChangeAll(panes, ids, horizontal, delta) ==
    [i \in DOMAIN panes |->
        IF i \notin Range(ids) THEN panes[i]
        ELSE IF horizontal THEN ChangeWidth(panes[i], delta)
        ELSE ChangeHeight(panes[i], delta)]

RemovePane(panes, id) == [i \in DOMAIN panes \ {id} |-> panes[i]]

\* the first band of close_pane, in the order left, right, above, below
CloseOrder == <<"Left", "Right", "Up", "Down">>
FirstSide(found) == IF found = <<>> THEN NoSide ELSE found[1]
ClosingSide(t, id) ==
    FirstSide(SelectSeq(CloseOrder, LAMBDA side :
                  panes_between_aligning_borders(t, side, id).some))

\* the active pane closed: the last selectable pane of the band takes over
Refocus(t, was_active, band) ==
    IF was_active THEN [t EXCEPT !.active_terminal = next_active_pane(t, band)]
    ELSE t
\* the band takes the share of the closed pane, which is removed
CloseIntoBand(t, id, side, band) ==
    Refocus([t EXCEPT !.panes =
                RemovePane(ChangeAll(t.panes, band, IsHorizontalSide(side),
                               IF IsHorizontalSide(side)
                               THEN t.panes[id].geom.cols.v
                               ELSE t.panes[id].geom.rows.v),
                           id)],
            t.active_terminal = id, band)
CloseTowards(t, id, side) ==
    IF side = NoSide
    THEN resize_whole_tab([t EXCEPT !.panes = RemovePane(t.panes, id)],
                          t.display_area)
    ELSE CloseIntoBand(t, id, side, panes_between_aligning_borders(t, side, id).ids)
CloseOutsideFullscreen(t, id) ==
    IF t.panicked \/ id \notin DOMAIN t.panes THEN t
    ELSE CloseTowards(t, id,
             IF t.panes[id].geom.cols.fixed \/ t.panes[id].geom.rows.fixed
             THEN NoSide ELSE ClosingSide(t, id))

\* Tab::close_pane(id)
close_pane(t, id) ==
    CloseOutsideFullscreen(IF t.fullscreen_is_active
                           THEN toggle_active_pane_fullscreen(t) ELSE t, id)

\* Tab::close_down_to_max_terminals
CloseNext(t, id) ==
    IF t.panicked THEN t ELSE close_pane(send_to_pty(t, PtyClose(id)), id)
CloseEach(t, ids) ==
    LET acc[k \in 0 .. Len(ids)] ==
            IF k = 0 THEN t ELSE CloseNext(acc[k - 1], ids[k])
    IN  acc[Len(ids)]
close_down_to_max_terminals(t) ==
    IF t.max_panes = None THEN t
    ELSE CloseEach(t, SubSeq(get_pane_ids(t), t.max_panes, Len(get_pane_ids(t))))

(***************************************************************************)
(* Split / new pane (Engine D).                                            *)
(***************************************************************************)
\* Pane::min_width, Pane::min_height
min_width(p) == MIN_TERMINAL_WIDTH
min_height(p) == MIN_TERMINAL_HEIGHT

\* the pane new_pane splits: the first pane of greatest score among the
\* panes that can be split, or None
terminal_can_be_split(p) ==
    /\ PaneCols(p) >= MIN_TERMINAL_WIDTH
    /\ PaneRows(p) >= MIN_TERMINAL_HEIGHT
    /\ (PaneCols(p) > min_width(p) * 2 \/ PaneRows(p) > min_height(p) * 2)
terminal_size(p) == (PaneRows(p) * CURSOR_HEIGHT_WIDTH_RATIO) * PaneCols(p)
FirstLargest(t, cands) ==
    IF cands = {} THEN None
    ELSE CHOOSE i \in cands :
             \A j \in cands :
                 \/ terminal_size(t.panes[i]) > terminal_size(t.panes[j])
                 \/ (terminal_size(t.panes[i]) = terminal_size(t.panes[j]) /\ i <= j)
\* a faulty choice: the first pane that can be split, whatever its size
FirstSplittable(t) ==
    LET cands == {i \in DOMAIN t.panes :
                     terminal_can_be_split(t.panes[i])
                     /\ terminal_size(t.panes[i]) > 0}
    IN  IF cands = {} THEN None
        ELSE CHOOSE m \in cands : \A e \in cands : m <= e
terminal_id_to_split(t) ==
    FirstLargest(t, {i \in DOMAIN t.panes :
                        terminal_can_be_split(t.panes[i])
                        /\ terminal_size(t.panes[i]) > 0})

\* the common prologue of new_pane, horizontal_split and vertical_split
LeaveFullscreen(t) ==
    IF t.panicked \/ ~t.fullscreen_is_active THEN t
    ELSE toggle_active_pane_fullscreen(t)
BeforeSplit(t) == LeaveFullscreen(close_down_to_max_terminals(t))

\* the first pane of a tab without panes
InstallFirstPane(t, pid) ==
    [t EXCEPT !.panes = [i \in {pid} |-> NewTerminalPane(DefaultGeom, t.now)],
              !.now = @ + 1,
              !.active_terminal = pid]

\* a faulty installation: both panes take the first half
InstallSplitOverlapping(t, id, pid, halves) ==
    [t EXCEPT !.panes =
        [i \in DOMAIN t.panes \cup {pid} |->
            IF i = pid THEN NewTerminalPane(halves[1], t.now)
            ELSE IF i = id THEN [t.panes[i] EXCEPT !.geom = halves[1]]
            ELSE t.panes[i]],
              !.now = @ + 1]

\* replace the geometry of the split pane and insert the new pane
InstallSplit(t, id, pid, halves) ==
    [t EXCEPT !.panes =
        [i \in DOMAIN t.panes \cup {pid} |->
            IF i = pid THEN NewTerminalPane(halves[2], t.now)
            ELSE IF i = id THEN [t.panes[i] EXCEPT !.geom = halves[1]]
            ELSE t.panes[i]],
              !.now = @ + 1]

\* new_pane: the halves are installed and the axis laid out, if there are halves
SplitInto(t, id, pid, halves, direction) ==
    IF halves = NoSplit THEN t
    ELSE relayout_tab(InstallSplit(t, id, pid, halves), direction)
SplitLargest(t, id, pid, terminal_to_split) ==
    IF /\ PaneRows(terminal_to_split) * CURSOR_HEIGHT_WIDTH_RATIO
              > PaneCols(terminal_to_split)
       /\ PaneRows(terminal_to_split) > min_height(terminal_to_split) * 2
    THEN SplitInto(t, id, pid, split_horizontally(terminal_to_split.geom), "Vertical")
    ELSE IF PaneCols(terminal_to_split) > min_width(terminal_to_split) * 2
    THEN SplitInto(t, id, pid, split_vertically(terminal_to_split.geom), "Horizontal")
    ELSE t
\* a faulty refusal: the fd of the pane that is not opened is left open
NewPaneWithoutClosing(t, pid, id) ==
    IF id = None THEN t
    ELSE [SplitLargest(t, id, pid, t.panes[id]) EXCEPT !.active_terminal = pid]
NewPaneBySplitting(t, pid, id) ==
    IF id = None THEN send_to_pty(t, PtyClose(pid))
    ELSE render([SplitLargest(t, id, pid, t.panes[id]) EXCEPT !.active_terminal = pid])
NewPaneIn(t, pid) ==
    IF t.panicked THEN t
    ELSE IF ~has_panes(t) THEN InstallFirstPane(t, pid)
    ELSE NewPaneBySplitting(t, pid, terminal_id_to_split(t))

\* Tab::new_pane(pid)
new_pane(t, pid) == NewPaneIn(BeforeSplit(t), pid)

SplitActiveHorizontally(t, pid, halves) ==
    IF halves = NoSplit THEN t
    ELSE render(relayout_tab([InstallSplit(t, t.active_terminal, pid, halves)
                                 EXCEPT !.active_terminal = pid],
                             "Vertical"))
\* a faulty split: the height of the active pane is not tested
HorizontalSplitUntested(t, pid) ==
    IF t.panicked THEN t
    ELSE IF ~has_panes(t) THEN InstallFirstPane(t, pid)
    ELSE IF t.active_terminal = None \/ t.active_terminal \notin DOMAIN t.panes
    THEN Panic(t)
    ELSE SplitActiveHorizontally(t, pid,
             split_horizontally(t.panes[t.active_terminal].geom))
HorizontalSplitIn(t, pid) ==
    IF t.panicked THEN t
    ELSE IF ~has_panes(t) THEN InstallFirstPane(t, pid)
    ELSE IF t.active_terminal = None \/ t.active_terminal \notin DOMAIN t.panes
    THEN Panic(t)
    ELSE IF PaneRows(t.panes[t.active_terminal]) < MIN_TERMINAL_HEIGHT * 2
    THEN send_to_pty(t, PtyClose(pid))
    ELSE SplitActiveHorizontally(t, pid,
             split_horizontally(t.panes[t.active_terminal].geom))

\* Tab::horizontal_split(pid)
horizontal_split(t, pid) == HorizontalSplitIn(BeforeSplit(t), pid)

\* the new pane becomes active and the columns are laid out even when the
\* active pane could not be halved
SplitActiveVertically(t, pid, halves) ==
    render(relayout_tab([(IF halves = NoSplit THEN t
                          ELSE InstallSplit(t, t.active_terminal, pid, halves))
                            EXCEPT !.active_terminal = pid],
                        "Horizontal"))
VerticalSplitIn(t, pid) ==
    IF t.panicked THEN t
    ELSE IF ~has_panes(t) THEN InstallFirstPane(t, pid)
    ELSE IF t.active_terminal = None \/ t.active_terminal \notin DOMAIN t.panes
    THEN Panic(t)
    ELSE IF PaneCols(t.panes[t.active_terminal]) < MIN_TERMINAL_WIDTH * 2
    THEN send_to_pty(t, PtyClose(pid))
    ELSE SplitActiveVertically(t, pid,
             split_vertically(t.panes[t.active_terminal].geom))

\* Tab::vertical_split(pid)
vertical_split(t, pid) == VerticalSplitIn(BeforeSplit(t), pid)

(***************************************************************************)
(* Resize (Engine E).                                                      *)
(***************************************************************************)
\* the Dimension of a geometry that a resize towards side changes
AxisDim(g, side) == IF IsHorizontalSide(side) THEN g.cols ELSE g.rows

\* the neighbours between the borders of the two bands, and the bands
BandsAround(t, axis, neighbours, before, after) ==
    [neighbours |-> SelectSeq(neighbours, LAMBDA i :
                        pane_is_between_borders(t, axis, i, before[1], after[1])),
     bands |-> before[2] \o after[2]]
WithinBorders(t, id, side, neighbours, terminal_borders) ==
    BandsAround(t, AxisAlong(side), neighbours,
                aligned_contiguous_panes_before(t, side, id, terminal_borders),
                aligned_contiguous_panes_after(t, side, id, terminal_borders))
NeighboursAndBands(t, id, side, neighbours) ==
    WithinBorders(t, id, side, neighbours,
                  {Pos(t.panes[i], AxisAlong(side)) : i \in Range(neighbours)})
\* the neighbours on one side and the two bands aligned on that side, as
\* increase_/reduce_pane_and_surroundings_<dir> compute them
Surroundings(t, id, side) ==
    NeighboursAndBands(t, id, side, pane_ids_directly(t, side, id))

\* the pane and its bands change one way, the neighbours the other way
Cascade(t, id, s, horizontal, count) ==
    [t EXCEPT !.panes =
        ChangeAll(ChangeAll(ChangeAll(t.panes, <<id>>, horizontal, count),
                            s.neighbours, horizontal, 0 - count),
                  s.bands, horizontal, count)]

\* Tab::increase_pane_and_surroundings_left / right / up / down
increase_pane_and_surroundings(t, id, side, count) ==
    IF pane_ids_directly(t, side, id) = NoIds THEN Panic(t)
    ELSE Cascade(t, id, Surroundings(t, id, side), IsHorizontalSide(side), count)

\* a pane of the bands would fall under its minimum
BandTooSmall(t, s, horizontal, count) ==
    \E i \in Range(s.bands) :
        IF horizontal
        THEN PaneCols(t.panes[i]) - (count \div PercentUnit) < min_width(t.panes[i])
        ELSE PaneRows(t.panes[i]) - (count \div PercentUnit) < min_height(t.panes[i])
ReduceUnlessTooSmall(t, id, s, horizontal, count) ==
    IF BandTooSmall(t, s, horizontal, count) THEN t
    ELSE Cascade(t, id, s, horizontal, 0 - count)

\* Tab::reduce_pane_and_surroundings_left / right / up / down: the pane
\* shrinks away from the side `from`, whose neighbours take the space
reduce_pane_and_surroundings(t, id, from, count) ==
    IF pane_ids_directly(t, from, id) = NoIds THEN Panic(t)
    ELSE ReduceUnlessTooSmall(t, id, Surroundings(t, id, from),
                              IsHorizontalSide(from), count)

\* a permission to grow that asks for neighbours only, whatever their shares
CanIncreaseWithNeighbours(t, id, side, increase_by) ==
    pane_ids_directly(t, side, id) # NoIds
\* Tab::can_increase_pane_and_surroundings_left / right / up / down
can_increase_pane_and_surroundings(t, id, side, increase_by) ==
    /\ pane_ids_directly(t, side, id) # NoIds
    /\ \A i \in Range(pane_ids_directly(t, side, id)) :
           /\ ~AxisDim(t.panes[i].geom, side).fixed
           /\ AxisDim(t.panes[i].geom, side).v - increase_by >= RESIZE_PERCENT

\* Tab::can_reduce_pane_and_surroundings_left / right / up / down
can_reduce_pane_and_surroundings(t, id, dir, reduce_by) ==
    /\ ~AxisDim(t.panes[id].geom, dir).fixed
    /\ AxisDim(t.panes[id].geom, dir).v - reduce_by >= RESIZE_PERCENT
    /\ pane_ids_directly(t, Opposite(dir), id) # NoIds

\* the cascade of Tab::resize_<dir>, before the tab is laid out again
ResizeCascade(t, dir) ==
    IF t.active_terminal = None THEN t
    ELSE IF t.active_terminal \notin DOMAIN t.panes THEN Panic(t)
    ELSE IF can_increase_pane_and_surroundings(t, t.active_terminal, dir, RESIZE_PERCENT)
    THEN increase_pane_and_surroundings(t, t.active_terminal, dir, RESIZE_PERCENT)
    ELSE IF can_reduce_pane_and_surroundings(t, t.active_terminal, dir, RESIZE_PERCENT)
    THEN reduce_pane_and_surroundings(t, t.active_terminal, Opposite(dir), RESIZE_PERCENT)
    ELSE t

\* the whole tab is laid out after the cascade
LayOutAgain(t) == IF t.panicked THEN t ELSE resize_whole_tab(t, t.display_area)

\* Tab::resize_left / resize_right / resize_up / resize_down
resize(t, dir) == render(LayOutAgain(ResizeCascade(t, dir)))

(***************************************************************************)
(* Focus (Engine F).                                                       *)
(***************************************************************************)
\* the selectable panes in row-major order (y first, then x)
RowMajor(t) ==
    StableSort(get_selectable_panes(t),
               [i \in DOMAIN t.panes |->
                   PaneY(t.panes[i]) * (DisplayCols * 1000) + PaneX(t.panes[i])])

IndexOf(s, e) == CHOOSE k \in 1 .. Len(s) : s[k] = e

\* a faulty step: the last pane is followed by itself
NextWithoutWrap(panes, k) == IF k + 1 <= Len(panes) THEN panes[k + 1] ELSE panes[k]
\* the pane after the k-th, the first after the last
NextOf(panes, k) == IF k + 1 <= Len(panes) THEN panes[k + 1] ELSE panes[1]
\* the pane before the k-th, the last before the first
PreviousOf(panes, k) == IF k = 1 THEN panes[Len(panes)] ELSE panes[k - 1]
FocusNextIn(t, panes) ==
    IF t.active_terminal \notin Range(panes) THEN Panic(t)
    ELSE render([t EXCEPT !.active_terminal =
                    NextOf(panes, IndexOf(panes, t.active_terminal))])
FocusPreviousIn(t, panes) ==
    IF t.active_terminal \notin Range(panes) THEN Panic(t)
    ELSE render([t EXCEPT !.active_terminal =
                    PreviousOf(panes, IndexOf(panes, t.active_terminal))])

\* Tab::focus_next_pane
focus_next_pane(t) ==
    IF ~has_selectable_panes(t) \/ t.fullscreen_is_active THEN t
    ELSE FocusNextIn(t, RowMajor(t))

\* Tab::focus_previous_pane
focus_previous_pane(t) ==
    IF ~has_selectable_panes(t) \/ t.fullscreen_is_active THEN t
    ELSE FocusPreviousIn(t, RowMajor(t))

\* a faulty move_focus: the focus moves in fullscreen as well
MoveFocusInFullscreen(t) ==
    IF ~has_selectable_panes(t) THEN t
    ELSE FocusNextIn(t, get_selectable_panes(t))
\* Tab::move_focus: the selectable pane after the active one, in the order
\* of the keys of the pane map
move_focus(t) ==
    IF ~has_selectable_panes(t) \/ t.fullscreen_is_active THEN t
    ELSE FocusNextIn(t, get_selectable_panes(t))

\* Pane::contains(position): the override when there is one
contains(p, position) ==
    /\ PaneX(p) <= position.column /\ position.column < PaneX(p) + PaneCols(p)
    /\ PaneY(p) <= position.line /\ position.line < PaneY(p) + PaneRows(p)

FirstHit(hit) == IF hit = <<>> THEN None ELSE hit[1]
\* Tab::get_pane_id_at(point)
get_pane_id_at(t, point) ==
    IF t.fullscreen_is_active THEN t.active_terminal
    ELSE FirstHit(SelectSeq(get_selectable_panes(t), LAMBDA i :
                      contains(t.panes[i], point)))

\* Tab::focus_pane_at, given the pane at the point
FocusPaneAt(t, id) ==
    IF id = None THEN t ELSE render([t EXCEPT !.active_terminal = id])
\* the pane at the point starts a selection and the tab is drawn again
StartSelection(t, id) == IF id \in DOMAIN t.panes THEN render(t) ELSE t
StartSelectionAt(t, position) == StartSelection(t, get_pane_id_at(t, position))
\* Tab::handle_left_click(position): focus_pane_at, then start a selection
handle_left_click(t, position) ==
    StartSelectionAt(FocusPaneAt(t, get_pane_id_at(t, position)), position)

\* the active pane lost its selectability: the last selectable pane takes over
AfterSelectable(t, refocus) ==
    IF refocus
    THEN [t EXCEPT !.active_terminal = next_active_pane(t, get_pane_ids(t))]
    ELSE t
\* Tab::set_pane_selectable(id, selectable)
set_pane_selectable(t, id, selectable) ==
    IF id \notin DOMAIN t.panes THEN render(t)
    ELSE render(AfterSelectable([t EXCEPT !.panes[id].selectable = selectable],
                                t.active_terminal = id /\ ~selectable))

(***************************************************************************)
(* Layouts.  The layout parser hands apply_layout a list of                *)
(* (borderless, geometry) parts, in unit coordinates: every part is one    *)
(* unit wide and high until the tab is laid out.                           *)
(***************************************************************************)
\* the first half of offset_viewport: a part as wide as the viewport at its
\* top or bottom edge
OffsetVertically(vp, g) ==
    IF g.x = vp.x /\ g.x + g.cols.inner = vp.x + vp.cols
    THEN IF g.y = vp.y
         THEN [vp EXCEPT !.y = @ + g.rows.inner, !.rows = @ - g.rows.inner]
         ELSE IF g.y + g.rows.inner = vp.y + vp.rows
         THEN [vp EXCEPT !.rows = @ - g.rows.inner]
         ELSE vp
    ELSE vp
\* the second half: a part as high as the viewport at its left or right edge
OffsetHorizontally(vp, g) ==
    IF g.y = vp.y /\ g.y + g.rows.inner = vp.y + vp.rows
    THEN IF g.x = vp.x
         THEN [vp EXCEPT !.x = @ + g.cols.inner, !.cols = @ - g.cols.inner]
         ELSE IF g.x + g.cols.inner = vp.x + vp.cols
         THEN [vp EXCEPT !.cols = @ - g.cols.inner]
         ELSE vp
    ELSE vp
\* Tab::offset_viewport(position_and_size)
offset_viewport(vp, g) == OffsetHorizontally(OffsetVertically(vp, g), g)

\* the viewport once every borderless part of the layout is taken off
OffsetPart(vp, part) ==
    IF part.borderless THEN offset_viewport(vp, part.geom) ELSE vp
OffsetAll(vp, parts) ==
    LET acc[k \in 0 .. Len(parts)] ==
            IF k = 0 THEN vp ELSE OffsetPart(acc[k - 1], parts[k])
    IN  acc[Len(parts)]

\* the first key of the pane map
FirstKey(ids) == IF ids = {} THEN None ELSE CHOOSE m \in ids : \A e \in ids : m <= e

\* the pane that takes a part: an existing pane drops its override, a new
\* pane is created; the existing panes beyond the parts are left alone
PaneInLayout(t, parts, i, k) ==
    IF k > Len(parts) THEN t.panes[i]
    ELSE IF i \in DOMAIN t.panes
    THEN [t.panes[i] EXCEPT !.geom_override = NoGeom, !.geom = parts[k].geom]
    ELSE NewTerminalPane(parts[k].geom, t.now + k)
\* the k-th part goes to the k-th pane of order: the existing panes in key
\* order, then the new fds
Positioned(t, parts, order, ids) ==
    [t EXCEPT
        !.panes_to_hide = {order[k] : k \in Len(parts) + 1 .. Cardinality(DOMAIN t.panes)},
        !.viewport = OffsetAll(t.viewport, parts),
        !.panes = [i \in ids |-> PaneInLayout(t, parts, i, IndexOf(order, i))],
        !.now = @ + Len(order) + 1,
        !.active_terminal = FirstKey(ids)]
PositionedIn(t, parts, order) ==
    Positioned(t, parts, order,
               DOMAIN t.panes \cup {order[k] : k \in 1 .. Len(parts)})

\* the fds the layout had no part for are closed
CloseAll(t, unused_pids) ==
    [t EXCEPT !.sent = @ \o [k \in 1 .. Len(unused_pids) |-> PtyClose(unused_pids[k])]]
CloseUnused(t, new_pids) ==
    CloseAll(t, SelectSeq(new_pids, LAMBDA i : i \notin DOMAIN t.panes))

\* Tab::apply_layout(layout, new_pids, tab_index)
apply_layout(t, positions_in_layout, new_pids) ==
    IF Len(positions_in_layout) > Cardinality(DOMAIN t.panes) + Len(new_pids)
    THEN Panic(t)
    ELSE render(LayOutAgain(CloseUnused(PositionedIn(t, positions_in_layout,
                                                     get_pane_ids(t) \o new_pids),
                                        new_pids)))

\* the layouts the model applies
FixedCols == 30
FixedRows == 2
Whole == DimPercent(100 * PercentUnit)
Layouts ==
    { \* one pane
      <<[borderless |-> FALSE, geom |-> DefaultGeom]>>,
      \* a column of fixed width and a flexible one
      <<[borderless |-> FALSE,
         geom |-> [x |-> 0, y |-> 0, cols |-> DimFixed(FixedCols), rows |-> Whole]],
        [borderless |-> FALSE,
         geom |-> [x |-> 1, y |-> 0, cols |-> Whole, rows |-> Whole]]>>,
      \* a flexible body above a borderless bar of fixed height
      <<[borderless |-> FALSE, geom |-> DefaultGeom],
        [borderless |-> TRUE,
         geom |-> [x |-> 0, y |-> 1, cols |-> Whole, rows |-> DimFixed(FixedRows)]]>> }

(***************************************************************************)
(* Bytes from the PTYs and from the user.                                  *)
(***************************************************************************)
\* the bytes a PTY or the user sends: plain text, or a query of the state
\* of the terminal, which the pane answers
Inputs == {"text", "query"}

\* OsApi::write_to_tty_stdin(fd, bytes) and OsApi::tcdrain(fd)
PtyWrite(pid, bytes) == [kind |-> "PtyWrite", id |-> pid, bytes |-> bytes]
PtyDrain(pid) == [kind |-> "PtyDrain", id |-> pid, bytes |-> ""]

\* TerminalPane::handle_pty_bytes followed by drain_messages_to_pty: the
\* answers the pane has for its PTY once it has read the bytes
drain_messages_to_pty(bytes) == IF bytes = "query" THEN <<"report">> ELSE <<>>
\* TerminalPane::adjust_input_to_terminal rewrites the cursor keys only,
\* and none of the bytes here is one
adjust_input_to_terminal(p, input_bytes) == input_bytes

\* Tab::write_to_pane_id, for a terminal pane
write_to_pane_id(t, input_bytes, pane_id) ==
    IF t.panicked THEN t
    ELSE IF pane_id \notin DOMAIN t.panes THEN Panic(t)
    ELSE send_to_pty(
             send_to_pty(t, PtyWrite(pane_id,
                 adjust_input_to_terminal(t.panes[pane_id], input_bytes))),
             PtyDrain(pane_id))

\* the loop over the answers of the pane, of which there is one at most
WriteEach(t, messages_to_pty, pid) ==
    IF messages_to_pty = <<>> THEN t
    ELSE write_to_pane_id(t, messages_to_pty[1], pid)

\* handle_pty_bytes without the test of the pane map
HandleBytesOfAnyPane(t, pid, bytes) == WriteEach(t, drain_messages_to_pty(bytes), pid)
\* Tab::handle_pty_bytes
handle_pty_bytes(t, pid, bytes) ==
    IF pid \in DOMAIN t.panes
    THEN WriteEach(t, drain_messages_to_pty(bytes), pid)
    ELSE t

\* Tab::write_to_active_terminal
write_to_active_terminal(t, input_bytes) ==
    IF t.active_terminal = None THEN Panic(t)
    ELSE write_to_pane_id(t, input_bytes, t.active_terminal)

(***************************************************************************)
(* Directional focus (Engine F).                                           *)
(***************************************************************************)
\* Pane::is_directly_right_of, Pane::is_directly_left_of
is_directly_right_of(p, other) == PaneX(p) = PaneX(other) + PaneCols(other)
\* a pane that ends one column before the other, with a boundary between
IsLeftOfBoundary(p, other) == PaneX(p) + PaneCols(p) + 1 = PaneX(other)
is_directly_left_of(p, other) == PaneX(p) + PaneCols(p) = PaneX(other)
\* Pane::horizontally_overlaps_with
horizontally_overlaps_with(p, other) ==
    \/ (PaneY(p) >= PaneY(other) /\ PaneY(p) < PaneY(other) + PaneRows(other))
    \/ (/\ PaneY(p) + PaneRows(p) <= PaneY(other) + PaneRows(other)
        /\ PaneY(p) + PaneRows(p) > PaneY(other))
    \/ (/\ PaneY(p) <= PaneY(other)
        /\ PaneY(p) + PaneRows(p) >= PaneY(other) + PaneRows(other))
    \/ (/\ PaneY(other) <= PaneY(p)
        /\ PaneY(other) + PaneRows(other) >= PaneY(p) + PaneRows(p))
\* Pane::vertically_overlaps_with
vertically_overlaps_with(p, other) ==
    \/ (PaneX(p) >= PaneX(other) /\ PaneX(p) < PaneX(other) + PaneCols(other))
    \/ (/\ PaneX(p) + PaneCols(p) <= PaneX(other) + PaneCols(other)
        /\ PaneX(p) + PaneCols(p) > PaneX(other))
    \/ (/\ PaneX(p) <= PaneX(other)
        /\ PaneX(p) + PaneCols(p) >= PaneX(other) + PaneCols(other))
    \/ (/\ PaneX(other) <= PaneX(p)
        /\ PaneX(other) + PaneCols(other) >= PaneX(p) + PaneCols(p))

\* Iterator::max_by_key(active_at): the last of the panes active most recently
MaxByActiveAt(t, ids) ==
    IF ids = <<>> THEN None
    ELSE CHOOSE m \in Range(ids) :
             \A e \in Range(ids) :
                 \/ t.panes[e].active_at < t.panes[m].active_at
                 \/ (t.panes[e].active_at = t.panes[m].active_at /\ e <= m)

\* the selectable panes next to the active one, on its left and on its right
LeftOfActive(t) ==
    SelectSeq(get_selectable_panes(t), LAMBDA i :
        /\ is_directly_left_of(t.panes[i], t.panes[t.active_terminal])
        /\ horizontally_overlaps_with(t.panes[i], t.panes[t.active_terminal]))
RightOfActive(t) ==
    SelectSeq(get_selectable_panes(t), LAMBDA i :
        /\ is_directly_right_of(t.panes[i], t.panes[t.active_terminal])
        /\ horizontally_overlaps_with(t.panes[i], t.panes[t.active_terminal]))

\* the match on next_index
MoveFocusTo(t, next_index) ==
    IF next_index = None THEN t
    ELSE render([t EXCEPT !.active_terminal = next_index])

\* Tab::move_focus_left and its return value
move_focus_left(t) ==
    IF ~has_selectable_panes(t) \/ t.fullscreen_is_active THEN t
    ELSE IF t.active_terminal \notin DOMAIN t.panes THEN Panic(t)
    ELSE MoveFocusTo(t, MaxByActiveAt(t, LeftOfActive(t)))
MovesFocusLeft(t) ==
    /\ has_selectable_panes(t) /\ ~t.fullscreen_is_active
    /\ t.active_terminal \in DOMAIN t.panes
    /\ LeftOfActive(t) # <<>>

\* Tab::move_focus_right and its return value
move_focus_right(t) ==
    IF ~has_selectable_panes(t) \/ t.fullscreen_is_active THEN t
    ELSE IF t.active_terminal \notin DOMAIN t.panes THEN Panic(t)
    ELSE MoveFocusTo(t, MaxByActiveAt(t, RightOfActive(t)))
MovesFocusRight(t) ==
    /\ has_selectable_panes(t) /\ ~t.fullscreen_is_active
    /\ t.active_terminal \in DOMAIN t.panes
    /\ RightOfActive(t) # <<>>

\* the selectable panes next to the active one, below it and above it
\* (Pane::is_directly_below, Pane::is_directly_above)
BelowActive(t) ==
    SelectSeq(get_selectable_panes(t), LAMBDA i :
        /\ PaneY(t.panes[i])
               = PaneY(t.panes[t.active_terminal]) + PaneRows(t.panes[t.active_terminal])
        /\ vertically_overlaps_with(t.panes[i], t.panes[t.active_terminal]))
AboveActive(t) ==
    SelectSeq(get_selectable_panes(t), LAMBDA i :
        /\ PaneY(t.panes[i]) + PaneRows(t.panes[i])
               = PaneY(t.panes[t.active_terminal])
        /\ vertically_overlaps_with(t.panes[i], t.panes[t.active_terminal]))

\* the match on next_index of move_focus_down and move_focus_up: the tab is
\* drawn whether the focus moved or not
MoveFocusAndRender(t, next_index) ==
    render(IF next_index = None THEN t ELSE [t EXCEPT !.active_terminal = next_index])

\* Tab::move_focus_down
move_focus_down(t) ==
    IF ~has_selectable_panes(t) \/ t.fullscreen_is_active THEN t
    ELSE IF t.active_terminal \notin DOMAIN t.panes THEN Panic(t)
    ELSE MoveFocusAndRender(t, MaxByActiveAt(t, BelowActive(t)))

\* Tab::move_focus_up
move_focus_up(t) ==
    IF ~has_selectable_panes(t) \/ t.fullscreen_is_active THEN t
    ELSE IF t.active_terminal \notin DOMAIN t.panes THEN Panic(t)
    ELSE MoveFocusAndRender(t, MaxByActiveAt(t, AboveActive(t)))

(***************************************************************************)
(* The state machine: one tab, driven by the commands of its owner.        *)
(***************************************************************************)
VARIABLES panes, panes_to_hide, active_terminal, max_panes, viewport,
          display_area, fullscreen_is_active, session_state, now, sent,
          should_clear_display_before_rendering,
          panicked, steps

vars == <<panes, panes_to_hide, active_terminal, max_panes, viewport,
          display_area, fullscreen_is_active, session_state, now, sent,
          should_clear_display_before_rendering,
          panicked, steps>>

\* the tab of the current state; the messages of the operations before have
\* left the channels
Tab == [panes |-> panes, panes_to_hide |-> panes_to_hide,
        active_terminal |-> active_terminal, max_panes |-> max_panes,
        viewport |-> viewport, display_area |-> display_area,
        fullscreen_is_active |-> fullscreen_is_active,
        session_state |-> session_state, now |-> now, sent |-> <<>>,
        should_clear_display_before_rendering |-> should_clear_display_before_rendering,
        panicked |-> panicked]
\* the tab of the next state
TabNext == [panes |-> panes', panes_to_hide |-> panes_to_hide',
            active_terminal |-> active_terminal', max_panes |-> max_panes',
            viewport |-> viewport', display_area |-> display_area',
            fullscreen_is_active |-> fullscreen_is_active',
            session_state |-> session_state', now |-> now', sent |-> <<>>,
            should_clear_display_before_rendering |-> should_clear_display_before_rendering',
            panicked |-> panicked']

\* Instants are only ever compared with one another: a state keeps the
\* order of the active_at of its panes, as their ranks, and the clock is
\* past all of them
Ranked(ps) ==
    [i \in DOMAIN ps |->
        [ps[i] EXCEPT !.active_at =
            Cardinality({j \in DOMAIN ps : ps[j].active_at < ps[i].active_at})]]

Becomes(t) ==
    /\ panes' = Ranked(t.panes)
    /\ panes_to_hide' = t.panes_to_hide
    /\ active_terminal' = t.active_terminal
    /\ max_panes' = t.max_panes
    /\ viewport' = t.viewport
    /\ display_area' = t.display_area
    /\ fullscreen_is_active' = t.fullscreen_is_active
    /\ session_state' = t.session_state
    /\ should_clear_display_before_rendering' = t.should_clear_display_before_rendering
    /\ now' = Cardinality(DOMAIN t.panes)
    /\ sent' = t.sent
    /\ panicked' = t.panicked

InitialViewport == [x |-> 0, y |-> 0, cols |-> DisplayCols, rows |-> DisplayRows]

\* the sizes the terminal window takes
Sizes == {[cols |-> DisplayCols, rows |-> DisplayRows],
          [cols |-> DisplayCols - 19, rows |-> DisplayRows - 5]}
\* the cells the mouse clicks
Positions == {[column |-> 0, line |-> 0],
              [column |-> DisplayCols - 20, line |-> DisplayRows - 6]}

\* the smallest fds that are not panes of the tab
FreshPids(n) ==
    LET free == SetToSeq(PaneIds \ DOMAIN panes)
    IN  SubSeq(free, 1, Min(n, Len(free)))

\* every Percent share of the tab can be halved exactly
Halvable ==
    \A i \in DOMAIN panes :
        /\ panes[i].geom.cols.fixed \/ panes[i].geom.cols.v % 2 = 0
        /\ panes[i].geom.rows.fixed \/ panes[i].geom.rows.v % 2 = 0

\* the tab as Tab::new makes it, with or without a first pane
Init ==
    /\ \E pane_id \in {None, 1} :
           LET t == Tab_new(InitialViewport, None, pane_id, "Attached")
           IN  /\ panes = t.panes
               /\ panes_to_hide = t.panes_to_hide
               /\ active_terminal = t.active_terminal
               /\ max_panes = t.max_panes
               /\ viewport = t.viewport
               /\ display_area = t.display_area
               /\ fullscreen_is_active = t.fullscreen_is_active
               /\ session_state = t.session_state
               /\ should_clear_display_before_rendering = t.should_clear_display_before_rendering
               /\ now = t.now
               /\ sent = t.sent
               /\ panicked = t.panicked
    /\ steps = 0

NewPane(pid) ==
    /\ ~panicked /\ steps < MaxSteps /\ pid \notin DOMAIN panes /\ Halvable
    /\ Becomes(new_pane(Tab, pid))
    /\ steps' = steps + 1
HorizontalSplit(pid) ==
    /\ ~panicked /\ steps < MaxSteps /\ pid \notin DOMAIN panes /\ Halvable
    /\ Becomes(horizontal_split(Tab, pid))
    /\ steps' = steps + 1
VerticalSplit(pid) ==
    /\ ~panicked /\ steps < MaxSteps /\ pid \notin DOMAIN panes /\ Halvable
    /\ Becomes(vertical_split(Tab, pid))
    /\ steps' = steps + 1
ClosePane(id) ==
    /\ ~panicked /\ steps < MaxSteps /\ id \in DOMAIN panes
    /\ Becomes(close_pane(Tab, id))
    /\ steps' = steps + 1
Resize(dir) ==
    /\ ~panicked /\ steps < MaxSteps
    /\ Becomes(resize(Tab, dir))
    /\ steps' = steps + 1
ToggleActivePaneFullscreen ==
    /\ ~panicked /\ steps < MaxSteps
    /\ Becomes(toggle_active_pane_fullscreen(Tab))
    /\ steps' = steps + 1
ResizeWholeTab(size) ==
    /\ ~panicked /\ steps < MaxSteps
    /\ Becomes(resize_whole_tab(Tab, size))
    /\ steps' = steps + 1
FocusNextPane ==
    /\ ~panicked /\ steps < MaxSteps
    /\ Becomes(focus_next_pane(Tab))
    /\ steps' = steps + 1
FocusPreviousPane ==
    /\ ~panicked /\ steps < MaxSteps
    /\ Becomes(focus_previous_pane(Tab))
    /\ steps' = steps + 1
HandleLeftClick(position) ==
    /\ ~panicked /\ steps < MaxSteps
    /\ Becomes(handle_left_click(Tab, position))
    /\ steps' = steps + 1
SetPaneSelectable(id, selectable) ==
    /\ ~panicked /\ steps < MaxSteps /\ id \in DOMAIN panes
    /\ Becomes(set_pane_selectable(Tab, id, selectable))
    /\ steps' = steps + 1
ApplyLayout(layout) ==
    /\ ~panicked /\ steps < MaxSteps
    /\ Len(layout) - Cardinality(DOMAIN panes) <= Cardinality(PaneIds \ DOMAIN panes)
    /\ Becomes(apply_layout(Tab, layout,
                   FreshPids(Len(layout) - Min(Len(layout), Cardinality(DOMAIN panes)))))
    /\ steps' = steps + 1

Next ==
    \/ \E pid \in PaneIds : NewPane(pid)
    \/ \E pid \in PaneIds : HorizontalSplit(pid)
    \/ \E pid \in PaneIds : VerticalSplit(pid)
    \/ \E id \in PaneIds : ClosePane(id)
    \/ \E dir \in Sides : Resize(dir)
    \/ ToggleActivePaneFullscreen
    \/ \E size \in Sizes : ResizeWholeTab(size)
    \/ FocusNextPane
    \/ FocusPreviousPane
    \/ \E position \in Positions : HandleLeftClick(position)
    \/ \E id \in PaneIds, selectable \in BOOLEAN : SetPaneSelectable(id, selectable)
    \/ \E layout \in Layouts : ApplyLayout(layout)

Spec == Init /\ [][Next]_vars

(***************************************************************************)
(* The tab of a session: Screen lays the tab out right after Tab::new, and *)
(* the commands are the ones that change the partition.                    *)
(***************************************************************************)
OnePane == <<[borderless |-> FALSE, geom |-> DefaultGeom]>>
LaidOutTab == apply_layout(Tab_new(InitialViewport, None, 1, "Attached"), OnePane, <<>>)
InitLaidOut ==
    /\ panes = Ranked(LaidOutTab.panes)
    /\ panes_to_hide = LaidOutTab.panes_to_hide
    /\ active_terminal = LaidOutTab.active_terminal
    /\ max_panes = LaidOutTab.max_panes
    /\ viewport = LaidOutTab.viewport
    /\ display_area = LaidOutTab.display_area
    /\ fullscreen_is_active = LaidOutTab.fullscreen_is_active
    /\ session_state = LaidOutTab.session_state
    /\ should_clear_display_before_rendering = LaidOutTab.should_clear_display_before_rendering
    /\ now = Cardinality(DOMAIN LaidOutTab.panes)
    /\ sent = <<>>
    /\ panicked = LaidOutTab.panicked
    /\ steps = 0

NextPartition ==
    \/ \E pid \in PaneIds : NewPane(pid)
    \/ \E pid \in PaneIds : HorizontalSplit(pid)
    \/ \E pid \in PaneIds : VerticalSplit(pid)
    \/ \E id \in PaneIds : ClosePane(id)
    \/ \E dir \in Sides : Resize(dir)
    \/ ToggleActivePaneFullscreen
    \/ \E size \in Sizes : ResizeWholeTab(size)

SpecPartition == InitLaidOut /\ [][NextPartition]_vars

(***************************************************************************)
(* The tab with its PTYs, its user and its session: bytes arrive, the      *)
(* focus moves, the client detaches and attaches.                          *)
(***************************************************************************)
SessionStates == {"Attached", "Detached"}

InitIO ==
    \/ InitLaidOut
    \/ Init /\ DOMAIN panes = {}

HandlePtyBytes(pid, bytes) ==
    /\ ~panicked /\ steps < MaxSteps
    /\ Becomes(handle_pty_bytes(Tab, pid, bytes))
    /\ steps' = steps + 1
WriteToActiveTerminal(input_bytes) ==
    /\ ~panicked /\ steps < MaxSteps
    /\ Becomes(write_to_active_terminal(Tab, input_bytes))
    /\ steps' = steps + 1
MoveFocusLeft ==
    /\ ~panicked /\ steps < MaxSteps
    /\ Becomes(move_focus_left(Tab))
    /\ steps' = steps + 1
MoveFocusRight ==
    /\ ~panicked /\ steps < MaxSteps
    /\ Becomes(move_focus_right(Tab))
    /\ steps' = steps + 1
MoveFocusDown ==
    /\ ~panicked /\ steps < MaxSteps
    /\ Becomes(move_focus_down(Tab))
    /\ steps' = steps + 1
MoveFocusUp ==
    /\ ~panicked /\ steps < MaxSteps
    /\ Becomes(move_focus_up(Tab))
    /\ steps' = steps + 1
MoveFocusByKey ==
    /\ ~panicked /\ steps < MaxSteps
    /\ Becomes(move_focus(Tab))
    /\ steps' = steps + 1
RenderTab ==
    /\ ~panicked /\ steps < MaxSteps
    /\ Becomes(render(Tab))
    /\ steps' = steps + 1
\* the client detaches or attaches: the session state is written outside
\* the tab, which reads it when it renders
SetSessionState(state) ==
    /\ ~panicked /\ steps < MaxSteps /\ state # session_state
    /\ Becomes([Tab EXCEPT !.session_state = state])
    /\ steps' = steps + 1

NextIO ==
    \/ \E pid \in PaneIds : NewPane(pid)
    \/ \E pid \in PaneIds : VerticalSplit(pid)
    \/ \E id \in PaneIds : ClosePane(id)
    \/ ToggleActivePaneFullscreen
    \/ \E id \in PaneIds, selectable \in BOOLEAN : SetPaneSelectable(id, selectable)
    \/ \E pid \in PaneIds, bytes \in Inputs : HandlePtyBytes(pid, bytes)
    \/ \E input_bytes \in Inputs : WriteToActiveTerminal(input_bytes)
    \/ MoveFocusLeft
    \/ MoveFocusRight
    \/ RenderTab
    \/ \E state \in SessionStates : SetSessionState(state)

SpecIO == InitIO /\ [][NextIO]_vars

(***************************************************************************)
(* The tab with a limit of panes. The fds of the new panes grow, so that   *)
(* of two panes of the tab the one of the smaller id is the older one.     *)
(***************************************************************************)
MaxPanes == 2
LimitedTab == apply_layout(Tab_new(InitialViewport, MaxPanes, 1, "Attached"), OnePane, <<>>)
InitLimited ==
    /\ panes = Ranked(LimitedTab.panes)
    /\ panes_to_hide = LimitedTab.panes_to_hide
    /\ active_terminal = LimitedTab.active_terminal
    /\ max_panes = LimitedTab.max_panes
    /\ viewport = LimitedTab.viewport
    /\ display_area = LimitedTab.display_area
    /\ fullscreen_is_active = LimitedTab.fullscreen_is_active
    /\ session_state = LimitedTab.session_state
    /\ should_clear_display_before_rendering = LimitedTab.should_clear_display_before_rendering
    /\ now = Cardinality(DOMAIN LimitedTab.panes)
    /\ sent = <<>>
    /\ panicked = LimitedTab.panicked
    /\ steps = 0

\* pid is above the fds of the panes of the tab
Newest(pid) == \A i \in DOMAIN panes : i < pid

NextLimited ==
    \/ \E pid \in PaneIds : Newest(pid) /\ NewPane(pid)
    \/ \E pid \in PaneIds : Newest(pid) /\ HorizontalSplit(pid)
    \/ \E pid \in PaneIds : Newest(pid) /\ VerticalSplit(pid)
    \/ \E id \in PaneIds : ClosePane(id)
    \/ \E dir \in Sides : Resize(dir)
    \/ ToggleActivePaneFullscreen
    \/ \E size \in Sizes : ResizeWholeTab(size)
    \/ FocusNextPane

SpecLimited == InitLimited /\ [][NextLimited]_vars

(***************************************************************************)
(* The tab of a layout of three columns, the last one narrow or of fixed   *)
(* width, under the resizes and the commands that move the focus.          *)
(***************************************************************************)
\* the share of the narrow column: 6 percent, under twice RESIZE_PERCENT
NarrowShare == 6 * PercentUnit
Column(k, cols) ==
    [borderless |-> FALSE, geom |-> [x |-> k, y |-> 0, cols |-> cols, rows |-> Whole]]
ThreeColumns ==
    { <<Column(0, DimPercent(50 * PercentUnit)),
        Column(1, DimPercent(50 * PercentUnit - NarrowShare)),
        Column(2, DimPercent(NarrowShare))>>,
      <<Column(0, DimPercent(50 * PercentUnit)),
        Column(1, DimPercent(50 * PercentUnit)),
        Column(2, DimFixed(FixedCols))>> }

InitColumns ==
    /\ \E layout \in ThreeColumns :
           LET t == apply_layout(Tab_new(InitialViewport, None, None, "Attached"),
                                 layout, <<1, 2, 3>>)
           IN  /\ panes = Ranked(t.panes)
               /\ panes_to_hide = t.panes_to_hide
               /\ active_terminal = t.active_terminal
               /\ max_panes = t.max_panes
               /\ viewport = t.viewport
               /\ display_area = t.display_area
               /\ fullscreen_is_active = t.fullscreen_is_active
               /\ session_state = t.session_state
               /\ should_clear_display_before_rendering = t.should_clear_display_before_rendering
               /\ now = Cardinality(DOMAIN t.panes)
               /\ sent = <<>>
               /\ panicked = t.panicked
    /\ steps = 0

NextColumns ==
    \/ \E dir \in Sides : Resize(dir)
    \/ FocusNextPane
    \/ FocusPreviousPane
    \/ \E pid \in PaneIds : HorizontalSplit(pid)
    \/ \E id \in PaneIds : ClosePane(id)

SpecColumns == InitColumns /\ [][NextColumns]_vars

(***************************************************************************)
(* The tab whose user moves the focus from pane to pane: panes are opened  *)
(* and closed, made selectable or not, and one is shown in fullscreen.     *)
(***************************************************************************)
NextFocus ==
    \/ \E pid \in PaneIds : NewPane(pid)
    \/ \E id \in PaneIds : ClosePane(id)
    \/ \E id \in PaneIds, selectable \in BOOLEAN : SetPaneSelectable(id, selectable)
    \/ ToggleActivePaneFullscreen
    \/ MoveFocusLeft
    \/ MoveFocusRight
    \/ MoveFocusUp
    \/ MoveFocusDown
    \/ MoveFocusByKey

SpecFocus == InitLaidOut /\ [][NextFocus]_vars

(***************************************************************************)
(* A tab on a wide terminal window: pane 1 on the left, pane 2 on the top  *)
(* right and the panes 3 and 4 under pane 2, where pane 4 has been grown   *)
(* to the left six times at the cost of pane 3.                            *)
(***************************************************************************)
WideCols == 240
\* the four panes, as the splits leave them
FourPanes ==
    vertical_split(
        horizontal_split(
            vertical_split(
                apply_layout(Tab_new([InitialViewport EXCEPT !.cols = WideCols],
                                     None, None, "Attached"),
                             OnePane, <<1>>),
                2),
            3),
        4)
\* pane 4 after six resize_left
WideTab ==
    resize(resize(resize(resize(resize(resize(FourPanes,
        "Left"), "Left"), "Left"), "Left"), "Left"), "Left")

InitWide ==
    /\ panes = Ranked(WideTab.panes)
    /\ panes_to_hide = WideTab.panes_to_hide
    /\ active_terminal = WideTab.active_terminal
    /\ max_panes = WideTab.max_panes
    /\ viewport = WideTab.viewport
    /\ display_area = WideTab.display_area
    /\ fullscreen_is_active = WideTab.fullscreen_is_active
    /\ session_state = WideTab.session_state
    /\ should_clear_display_before_rendering = WideTab.should_clear_display_before_rendering
    /\ now = Cardinality(DOMAIN WideTab.panes)
    /\ sent = <<>>
    /\ panicked = WideTab.panicked
    /\ steps = 0

NextWide ==
    \/ \E dir \in Sides : Resize(dir)
    \/ FocusNextPane
    \/ FocusPreviousPane

SpecWide == InitWide /\ [][NextWide]_vars

(***************************************************************************)
(* Properties of the partition.                                            *)
(***************************************************************************)
\* the panes a render shows
Visible == {i \in DOMAIN panes : panes[i].selectable /\ i \notin panes_to_hide}
\* the rectangles of p and q share a cell
Overlap(p, q) ==
    /\ PaneX(p) < PaneX(q) + PaneCols(q)
    /\ PaneX(q) < PaneX(p) + PaneCols(p)
    /\ PaneY(p) < PaneY(q) + PaneRows(q)
    /\ PaneY(q) < PaneY(p) + PaneRows(p)

\* C1: after any sequence of new_pane, horizontal_split, vertical_split,
\* close_pane, resize_<dir>, toggle_active_pane_fullscreen and
\* resize_whole_tab on a tab with a pane, the rectangles of two distinct
\* selectable panes that are not hidden share no cell.
C1_Disjoint ==
    \A i \in Visible : \A j \in Visible :
        i # j => ~Overlap(panes[i], panes[j])
\* three panes are shown side by side after a close or a resize
C1_Witness ==
    /\ ~fullscreen_is_active
    /\ Cardinality(Visible) = 3
    /\ steps >= 3
    /\ \A i \in Visible : PaneCols(panes[i]) > 1 /\ PaneRows(panes[i]) > 1

\* a pane of the render covers the cell
Covered(x, y) ==
    \E i \in Visible : contains(panes[i], [column |-> x, line |-> y])
\* the rectangle of p lies inside the viewport
Inside(p) ==
    /\ PaneX(p) >= viewport.x
    /\ PaneY(p) >= viewport.y
    /\ PaneX(p) + PaneCols(p) <= viewport.x + viewport.cols
    /\ PaneY(p) + PaneRows(p) <= viewport.y + viewport.rows
\* the shown rectangles lie inside the viewport and leave no cell of it out:
\* a cell left out that is least in (y, x) has the viewport's edge or the end
\* of a pane to its left and above it
Coverage ==
    /\ \A i \in Visible : Inside(panes[i])
    /\ \A x \in {viewport.x} \cup {PaneX(panes[i]) + PaneCols(panes[i]) : i \in Visible} :
       \A y \in {viewport.y} \cup {PaneY(panes[i]) + PaneRows(panes[i]) : i \in Visible} :
           (x < viewport.x + viewport.cols /\ y < viewport.y + viewport.rows)
               => Covered(x, y)

\* C2, outside fullscreen: after any sequence of the operations of C1 on a
\* tab with a pane, the rectangles of the selectable panes that are not
\* hidden cover the viewport and nothing else, also after close_pane gave or
\* failed to give the freed space to the neighbours.
C2_Coverage == fullscreen_is_active \/ DOMAIN panes = {} \/ Coverage

\* the tab shows its panes laid out over the whole viewport
LaidOutState == ~fullscreen_is_active /\ Coverage
Minimums ==
    \A i \in DOMAIN panes :
        /\ PaneCols(panes[i]) >= MIN_TERMINAL_WIDTH
        /\ PaneRows(panes[i]) >= MIN_TERMINAL_HEIGHT

\* C3, on the tabs whose panes cover the viewport: after every operation,
\* a permitted resize_<dir> and an accepted split among them, every pane has
\* at least MIN_TERMINAL_WIDTH columns and MIN_TERMINAL_HEIGHT rows.
C3_Minimums == LaidOutState => Minimums

\* the sum of the Percent column shares of the panes the row y crosses
ColShares(y) ==
    SumSeq([k \in 1 .. Cardinality({i \in Visible :
                    PaneY(panes[i]) <= y /\ y < PaneY(panes[i]) + PaneRows(panes[i])}) |->
            panes[SetToSeq({i \in Visible :
                    PaneY(panes[i]) <= y /\ y < PaneY(panes[i]) + PaneRows(panes[i])})[k]]
                .geom.cols.v])
\* the sum of the Percent row shares of the panes the column x crosses
RowShares(x) ==
    SumSeq([k \in 1 .. Cardinality({i \in Visible :
                    PaneX(panes[i]) <= x /\ x < PaneX(panes[i]) + PaneCols(panes[i])}) |->
            panes[SetToSeq({i \in Visible :
                    PaneX(panes[i]) <= x /\ x < PaneX(panes[i]) + PaneCols(panes[i])})[k]]
                .geom.rows.v])
AllPercent ==
    \A i \in Visible : ~panes[i].geom.cols.fixed /\ ~panes[i].geom.rows.fixed
PercentSums ==
    /\ \A i \in Visible : ColShares(PaneY(panes[i])) = 100 * PercentUnit
    /\ \A i \in Visible : RowShares(PaneX(panes[i])) = 100 * PercentUnit

\* C4, on the tabs whose panes cover the viewport: after splits, closes and
\* resizes of Percent panes the Percent column shares of the panes a
\* horizontal cut crosses sum to 100, and the Percent row shares of the panes
\* a vertical cut crosses sum to 100.
C4_PercentSums == (LaidOutState /\ AllPercent) => PercentSums

\* C5: after every operation the active pane id is unset or a key of the
\* pane map, also after the last pane was closed and after a split that
\* installed no pane.
C5_ActiveIdentity == active_terminal = None \/ active_terminal \in DOMAIN panes

\* the override is the one toggle_active_pane_fullscreen installs, or has
\* the cells of the viewport
FillsViewport(g) ==
    /\ g.x = viewport.x
    /\ g.y = viewport.y
    /\ \/ (g.cols.inner = viewport.cols /\ g.rows.inner = viewport.rows)
       \/ (g.cols = DimPercent(100 * PercentUnit) /\ g.rows = DimPercent(100 * PercentUnit))

\* C6: while fullscreen_is_active the active pane is the one pane with a
\* geometry override, the override fills the viewport, and every other pane
\* is in panes_to_hide; also after set_pane_selectable, apply_layout and a
\* mouse click during fullscreen.
C6_FullscreenExclusive ==
    fullscreen_is_active =>
        /\ active_terminal \in DOMAIN panes
        /\ \A i \in DOMAIN panes :
               (panes[i].geom_override # NoGeom) <=> (i = active_terminal)
        /\ \A i \in DOMAIN panes :
               (i = active_terminal /\ panes[i].geom_override # NoGeom)
                   => FillsViewport(panes[i].geom_override[1])
        /\ \A i \in DOMAIN panes : i # active_terminal => i \in panes_to_hide

\* the tab after a second toggle
ToggledAgain == toggle_active_pane_fullscreen(TabNext)
\* the geometries, the overrides and the selectability of the panes
Geometry(ps) ==
    [i \in DOMAIN ps |->
        [geom |-> ps[i].geom, geom_override |-> ps[i].geom_override,
         selectable |-> ps[i].selectable]]

\* C7: toggle_active_pane_fullscreen twice, from a tab outside fullscreen
\* with two panes or more, gives the tab back: every pane has the rectangle
\* it had and no override, panes_to_hide is empty, fullscreen_is_active is
\* false and the active pane is the one it was.
C7_FullscreenRoundTrip ==
    [][(/\ ToggleActivePaneFullscreen
        /\ ~fullscreen_is_active
        /\ Cardinality(DOMAIN panes) >= 2)
       => (/\ ~panicked'
           /\ ~ToggledAgain.panicked
           /\ Geometry(ToggledAgain.panes) = Geometry(panes)
           /\ ToggledAgain.panes_to_hide = {}
           /\ ~ToggledAgain.fullscreen_is_active
           /\ ToggledAgain.active_terminal = active_terminal)]_vars

\* the base geometry of every pane
BaseOf(ps) == [i \in DOMAIN ps |-> ps[i].geom]

\* C8: entering fullscreen changes the base geometry of no pane, and sets
\* the override of the active pane and of no other pane.
C8_FullscreenFrame ==
    [][(/\ ToggleActivePaneFullscreen
        /\ ~fullscreen_is_active
        /\ fullscreen_is_active')
       => (/\ BaseOf(panes') = BaseOf(panes)
           /\ \A i \in DOMAIN panes' :
                  (panes'[i].geom_override # NoGeom) <=> (i = active_terminal))]_vars

\* where every pane is and what share it has
Placement(ps) ==
    [i \in DOMAIN ps |->
        [x |-> ps[i].geom.x, y |-> ps[i].geom.y,
         cols |-> [fixed |-> ps[i].geom.cols.fixed, v |-> ps[i].geom.cols.v],
         rows |-> [fixed |-> ps[i].geom.rows.fixed, v |-> ps[i].geom.rows.v]]]

\* C9: vertical_split(pid) that installs the pane pid, followed by
\* close_pane(pid), gives the partition back: the panes are the ones there
\* were, each with the x, the y and the shares of columns and rows it had.
C9_SplitCloseRoundTrip ==
    [][\A pid \in PaneIds :
         (/\ VerticalSplit(pid)
          /\ DOMAIN panes # {}
          /\ ~panicked'
          /\ pid \in DOMAIN panes')
         => (/\ ~close_pane(TabNext, pid).panicked
             /\ Placement(close_pane(TabNext, pid).panes) = Placement(panes))]_vars

\* C10: on a tab with a pane, focus_next_pane followed by
\* focus_previous_pane leaves the active pane id as it was.
C10_FocusRoundTrip ==
    [][(FocusNextPane /\ DOMAIN panes # {})
       => (/\ ~panicked'
           /\ ~focus_previous_pane(TabNext).panicked
           /\ focus_previous_pane(TabNext).active_terminal = active_terminal)]_vars

\* resize_left applied to the tab a step has produced
ResizedBack == resize(TabNext, "Left")

\* C11: on a tab whose panes tile the viewport, resize_right followed by
\* resize_left with the same active pane, when both calls changed the
\* geometry, gives every pane the x, the y and the shares of columns and rows
\* it had before the two calls.
C11_ResizeRoundTrip ==
    [][(/\ Resize("Right")
        /\ LaidOutState
        /\ ~panicked'
        /\ Placement(panes') # Placement(panes))
       => \A back \in {ResizedBack} :
              (~back.panicked /\ Placement(back.panes) # Placement(panes'))
              => Placement(back.panes) = Placement(panes)]_vars

\* C12: a resize that would take a pane under its minimum size changes
\* nothing: from a tab whose panes tile the viewport and have their minimum
\* sizes, resize_<dir> either leaves every pane as it was or leaves every
\* pane at its minimum size or above.
C12_ResizeAborts ==
    [][((\E dir \in Sides : Resize(dir)) /\ LaidOutState /\ Minimums /\ ~panicked')
       => (Geometry(panes') = Geometry(panes) \/ Minimums')]_vars

\* the active pane is in the map and the tab is not in fullscreen
ActivePaneShown == ~fullscreen_is_active /\ active_terminal \in DOMAIN panes
\* new_pane would halve the rows of the pane p rather than its columns
HalvesRows(p) ==
    /\ PaneRows(p) * CURSOR_HEIGHT_WIDTH_RATIO > PaneCols(p)
    /\ PaneRows(p) > min_height(p) * 2
\* the pane new_pane picks is Fixed on the axis new_pane would halve
PicksFixedPane(id) ==
    /\ id # None
    /\ IF HalvesRows(panes[id]) THEN panes[id].geom.rows.fixed
       ELSE PaneCols(panes[id]) > min_width(panes[id]) * 2 /\ panes[id].geom.cols.fixed

\* C13: a split of a pane whose dimension on the split axis is Fixed, by
\* new_pane, horizontal_split or vertical_split, changes nothing: the panes,
\* their geometries and the active pane id stay as they were.
C13_FixedSplitNoOp ==
    [][\A pid \in PaneIds \ DOMAIN panes :
         (\/ /\ ActivePaneShown
             /\ panes[active_terminal].geom.cols.fixed
             /\ VerticalSplit(pid)
          \/ /\ ActivePaneShown
             /\ panes[active_terminal].geom.rows.fixed
             /\ HorizontalSplit(pid)
          \/ /\ ~fullscreen_is_active
             /\ PicksFixedPane(terminal_id_to_split(Tab))
             /\ NewPane(pid))
         => (/\ ~panicked'
             /\ Geometry(panes') = Geometry(panes)
             /\ active_terminal' = active_terminal)]_vars

\* the messages of s that go to the PTY host
ToPty(s) == SelectSeq(s, LAMBDA message : message.kind = "PtyClose")

\* C14 as claimed: new_pane(pid) that finds panes but none it can split
\* sends the one message PtyClose(pid) and leaves the panes, their
\* geometries and the active pane as they were.
C14_NewPaneRejected ==
    [][\A pid \in PaneIds \ DOMAIN panes :
         (/\ has_panes(BeforeSplit(Tab))
          /\ terminal_id_to_split(BeforeSplit(Tab)) = None
          /\ NewPane(pid))
         => (/\ ~panicked'
             /\ ToPty(sent') = <<PtyClose(pid)>>
             /\ Geometry(panes') = Geometry(panes)
             /\ active_terminal' = active_terminal)]_vars

\* new_pane has nothing to close or to leave before it looks for a pane
NothingBeforeSplit ==
    /\ ~fullscreen_is_active
    /\ max_panes = None \/ Cardinality(DOMAIN panes) < max_panes
\* C14: outside fullscreen and under the limit of panes, new_pane(pid) on a
\* tab with panes of which none can be split sends the one message
\* PtyClose(pid) and leaves the panes, their geometries, the hidden panes and
\* the active pane as they were.
C14_NewPaneRejectedOutsideFullscreen ==
    [][\A pid \in PaneIds \ DOMAIN panes :
         (/\ NothingBeforeSplit
          /\ has_panes(Tab)
          /\ terminal_id_to_split(Tab) = None
          /\ NewPane(pid))
         => (/\ ~panicked'
             /\ ToPty(sent') = <<PtyClose(pid)>>
             /\ panes' = panes
             /\ panes_to_hide' = panes_to_hide
             /\ active_terminal' = active_terminal)]_vars
\* a tab none of whose panes can be split has refused a pane
C14_Witness ==
    /\ NothingBeforeSplit
    /\ Cardinality(DOMAIN panes) >= 2
    /\ terminal_id_to_split(Tab) = None
    /\ \E pid \in PaneIds \ DOMAIN panes : ToPty(sent) = <<PtyClose(pid)>>

\* the shares of columns and rows of every pane
Shares(ps) ==
    [i \in DOMAIN ps |->
        [cols |-> [fixed |-> ps[i].geom.cols.fixed, v |-> ps[i].geom.cols.v],
         rows |-> [fixed |-> ps[i].geom.rows.fixed, v |-> ps[i].geom.rows.v]]]
\* the active pane of t is under twice the minimum on the axis of the split
TooSmallToSplit(t, horizontal) ==
    /\ t.active_terminal \in DOMAIN t.panes
    /\ IF horizontal
       THEN PaneRows(t.panes[t.active_terminal]) < MIN_TERMINAL_HEIGHT * 2
       ELSE PaneCols(t.panes[t.active_terminal]) < MIN_TERMINAL_WIDTH * 2
\* the split of the step is refused: PtyClose(pid) and nothing else
Refused(pid) ==
    /\ ~panicked'
    /\ ToPty(sent') = <<PtyClose(pid)>>
    /\ panes' = panes
    /\ active_terminal' = active_terminal
\* the split of the step is refused and every pane is drawn where it was
RefusedInPlace(pid) ==
    /\ ~panicked'
    /\ ToPty(sent') = <<PtyClose(pid)>>
    /\ Geometry(panes') = Geometry(panes)
    /\ active_terminal' = active_terminal
\* the panes other than the active one keep their shares
OthersNotSplit ==
    /\ ~panicked'
    /\ \A i \in DOMAIN panes \ {active_terminal} :
           i \in DOMAIN panes' /\ Shares(panes')[i] = Shares(panes)[i]

C16_UnknownFdDropped ==
    [][\A pid \in PaneIds \ DOMAIN panes, bytes \in Inputs :
         HandlePtyBytes(pid, bytes)
         => (~panicked' /\ sent' = <<>> /\ TabNext = Tab)]_vars

\* a laid-out tab of one pane that has let an operation pass without a
\* trace, as bytes of an unknown fd do
C16_Witness ==
    /\ steps > 0 /\ sent = <<>> /\ ~panicked
    /\ DOMAIN panes = {1} /\ LaidOutState /\ active_terminal = 1

\* C17 as claimed: write_to_active_terminal on a tab with no active pane,
\* or whose active id names no pane, completes without failure, writes
\* nothing and changes no state.
C17_InputDropped ==
    [][\A input_bytes \in Inputs :
         (active_terminal \notin DOMAIN panes /\ WriteToActiveTerminal(input_bytes))
         => (~panicked' /\ sent' = <<>> /\ TabNext = Tab)]_vars

\* C18: render sends no Render message when the tab has no active pane or
\* the session is not Attached, and exactly one otherwise, which holds no
\* pane of panes_to_hide.
C18_RenderOnce ==
    [][RenderTab
       => IF active_terminal = None \/ session_state # "Attached"
          THEN sent' = <<>>
          ELSE /\ Len(sent') = 1
               /\ sent'[1].kind = "Render"
               /\ sent'[1].panes \cap panes_to_hide = {}]_vars

\* a tab in fullscreen has been rendered, without the panes it hides
C18_Witness ==
    /\ panes_to_hide # {} /\ session_state = "Attached"
    /\ Len(sent) = 1 /\ sent[1].kind = "Render"
    /\ sent[1].panes = DOMAIN panes \ panes_to_hide

FocusedLeft == move_focus_left(TabNext)
\* the split took place: the new pane is in the map
Accepted(pid) == ~panicked' /\ pid \in DOMAIN panes'

Closed == DOMAIN panes \ DOMAIN panes'
Kept == DOMAIN panes \cap DOMAIN panes'
AddsPane(pid) == NewPane(pid) \/ HorizontalSplit(pid) \/ VerticalSplit(pid)

\* C19 as claimed: with max_panes = n, new_pane / horizontal_split /
\* vertical_split leave the tab with n panes at most, every pane they close
\* gets a PtyClose message, and the panes they close are the oldest ones:
\* older than every pane they keep.
C19_CloseOldest ==
    [][\A pid \in PaneIds \ DOMAIN panes :
         (max_panes # None /\ AddsPane(pid))
         => /\ ~panicked'
            /\ Cardinality(DOMAIN panes') <= max_panes
            /\ \A c \in Closed : PtyClose(c) \in Range(sent')
            /\ \A c \in Closed, k \in Kept : c < k]_vars

(***************************************************************************)
(* Properties of close_pane, of the resizes and of the splits.             *)
(***************************************************************************)
\* the pane has the cells of the whole viewport
CoversViewport(p) ==
    /\ PaneX(p) = viewport.x /\ PaneY(p) = viewport.y
    /\ PaneCols(p) = viewport.cols /\ PaneRows(p) = viewport.rows
\* the shares of pane p with delta more columns (rows)
GrownShares(p, horizontal, delta) ==
    [cols |-> [fixed |-> FALSE, v |-> p.geom.cols.v + (IF horizontal THEN delta ELSE 0)],
     rows |-> [fixed |-> FALSE, v |-> p.geom.rows.v + (IF horizontal THEN 0 ELSE delta)]]
\* the step gave the share of the pane id to the band on the side, and left
\* the other panes as they were
Reclaimed(id, side, band) ==
    /\ ~panicked'
    /\ DOMAIN panes' = DOMAIN panes \ {id}
    /\ \A i \in band :
           Shares(panes')[i] =
               GrownShares(panes[i], IsHorizontalSide(side),
                           IF IsHorizontalSide(side) THEN panes[id].geom.cols.v
                           ELSE panes[id].geom.rows.v)
    /\ \A i \in DOMAIN panes' \ band : Geometry(panes')[i] = Geometry(panes)[i]

\* C21 as claimed: close_pane of a Percent x Percent pane with a band that
\* reclaims its space grows the share of every pane of the band by the width
\* (height) of the closed pane and changes no other pane; when the closed
\* pane is one half of a tab of two panes, the other pane is left with
\* Percent 100 and covers the whole viewport.
C21_CloseReclaims ==
    [][\A id \in DOMAIN panes :
         (/\ LaidOutState
          /\ ~panes[id].geom.cols.fixed /\ ~panes[id].geom.rows.fixed
          /\ ClosingSide(Tab, id) # NoSide
          /\ ClosePane(id))
         => /\ \A side \in {ClosingSide(Tab, id)} :
                   Reclaimed(id, side,
                       Range(panes_between_aligning_borders(Tab, side, id).ids))
            /\ Cardinality(DOMAIN panes) = 2
                   => \A i \in DOMAIN panes' :
                          /\ panes'[i].geom.cols.v = 100 * PercentUnit
                          /\ panes'[i].geom.rows.v = 100 * PercentUnit
                          /\ CoversViewport(panes'[i])]_vars

\* a, b and c are the three panes of the tab, side by side in one row over
\* the height of the viewport, all of Percent columns, and b is active
RowOfThree(a, b, c) ==
    /\ DOMAIN panes = {a, b, c} /\ Cardinality({a, b, c}) = 3
    /\ LaidOutState /\ active_terminal = b
    /\ is_directly_left_of(panes[a], panes[b])
    /\ is_directly_left_of(panes[b], panes[c])
    /\ \A i \in {a, b, c} :
           /\ ~panes[i].geom.cols.fixed
           /\ PaneY(panes[i]) = viewport.y /\ PaneRows(panes[i]) = viewport.rows

\* C22: in a row of three panes A|B|C with B active, resize_right leaves A
\* as it is, adds RESIZE_PERCENT to the columns of B and takes it from the
\* columns of C; when C has less than twice RESIZE_PERCENT, B does not grow.
C22_ResizeRightInRow ==
    [][\A a, b, c \in DOMAIN panes :
         (RowOfThree(a, b, c) /\ Resize("Right"))
         => /\ ~panicked'
            /\ DOMAIN panes' = DOMAIN panes
            /\ IF panes[c].geom.cols.v - RESIZE_PERCENT >= RESIZE_PERCENT
               THEN /\ Placement(panes')[a] = Placement(panes)[a]
                    /\ Shares(panes')[b].cols.v = Shares(panes)[b].cols.v + RESIZE_PERCENT
                    /\ Shares(panes')[c].cols.v = Shares(panes)[c].cols.v - RESIZE_PERCENT
                    /\ Shares(panes')[b].rows = Shares(panes)[b].rows
                    /\ Shares(panes')[c].rows = Shares(panes)[c].rows
               ELSE Shares(panes')[b].cols.v <= Shares(panes)[b].cols.v]_vars

\* a row of three with B active and drawn, in which the columns have
\* moved from their first shares and C has no more to give
C22_Witness ==
    /\ \E a, b, c \in DOMAIN panes :
           /\ RowOfThree(a, b, c)
           /\ panes[c].geom.cols.v - RESIZE_PERCENT < RESIZE_PERCENT
           /\ panes[a].geom.cols.v # 50 * PercentUnit
           /\ panes[b].geom.cols.v # 50 * PercentUnit - NarrowShare
    /\ sent = <<Render(DOMAIN panes)>>

\* the step has split pane a in two halves along the rows (horizontal) or
\* the columns: a is the upper (left) one, pid the lower (right) one, each
\* with half the share, and pid is active
SplitInHalves(a, pid, horizontal) ==
    /\ active_terminal' = pid
    /\ a \in DOMAIN panes'
    /\ ~AxisDim(panes'[a].geom, IF horizontal THEN "Up" ELSE "Left").fixed
    /\ 2 * AxisDim(panes'[a].geom, IF horizontal THEN "Up" ELSE "Left").v
           = AxisDim(panes[a].geom, IF horizontal THEN "Up" ELSE "Left").v
    /\ ~AxisDim(panes'[pid].geom, IF horizontal THEN "Up" ELSE "Left").fixed
    /\ AxisDim(panes'[pid].geom, IF horizontal THEN "Up" ELSE "Left").v
           = AxisDim(panes'[a].geom, IF horizontal THEN "Up" ELSE "Left").v
    /\ IF horizontal
       THEN /\ Shares(panes')[a].cols = Shares(panes)[a].cols
            /\ Shares(panes')[pid].cols = Shares(panes)[a].cols
            /\ panes'[a].geom.x = panes[a].geom.x
            /\ panes'[pid].geom.x = panes[a].geom.x
            /\ panes'[pid].geom.y = panes'[a].geom.y + panes'[a].geom.rows.inner
       ELSE /\ Shares(panes')[a].rows = Shares(panes)[a].rows
            /\ Shares(panes')[pid].rows = Shares(panes)[a].rows
            /\ panes'[a].geom.y = panes[a].geom.y
            /\ panes'[pid].geom.y = panes[a].geom.y
            /\ panes'[pid].geom.x = panes'[a].geom.x + panes'[a].geom.cols.inner

UnderLimit == max_panes = None \/ Cardinality(DOMAIN panes) < max_panes

GrowPermitted(dir) ==
    can_increase_pane_and_surroundings(Tab, active_terminal, dir, RESIZE_PERCENT)
ShrinkPermitted(dir) ==
    can_reduce_pane_and_surroundings(Tab, active_terminal, dir, RESIZE_PERCENT)
\* the share of the active pane on the axis of dir, in a map of panes
ActiveShare(ps, dir) == AxisDim(ps[active_terminal].geom, dir).v

\* C24: resize_<dir> adds RESIZE_PERCENT to the share of the active pane
\* when growing is permitted; otherwise it takes RESIZE_PERCENT from it when
\* shrinking is permitted; otherwise it leaves the geometry of every pane as
\* it is.
C24_GrowElseShrink ==
    [][\A dir \in Sides :
         (active_terminal \in DOMAIN panes /\ LaidOutState /\ Resize(dir))
         => /\ ~panicked'
            /\ DOMAIN panes' = DOMAIN panes
            /\ IF GrowPermitted(dir)
               THEN ActiveShare(panes', dir) = ActiveShare(panes, dir) + RESIZE_PERCENT
               ELSE IF ShrinkPermitted(dir)
               THEN ActiveShare(panes', dir) = ActiveShare(panes, dir) - RESIZE_PERCENT
               ELSE Geometry(panes') = Geometry(panes)]_vars

\* pane p lies against the side dir of pane c: its edge is on the line of
\* that side of c
LiesAgainst(p, c, dir) ==
    CASE dir = "Left" -> PaneX(p) + PaneCols(p) = PaneX(c)
      [] dir = "Right" -> PaneX(p) = PaneX(c) + PaneCols(c)
      [] dir = "Up" -> PaneY(p) + PaneRows(p) = PaneY(c)
      [] dir = "Down" -> PaneY(p) = PaneY(c) + PaneRows(c)
\* the panes directly adjacent to the active pane on the side dir
DirectlyAdjacent(dir) ==
    {i \in DOMAIN panes \ {active_terminal} :
        LiesAgainst(panes[i], panes[active_terminal], dir)}
\* the active pane lies against the edge of the viewport on the side dir
FlushWithEdge(dir) ==
    CASE dir = "Left" -> PaneX(panes[active_terminal]) = viewport.x
      [] dir = "Right" ->
             PaneX(panes[active_terminal]) + PaneCols(panes[active_terminal])
                 = viewport.x + viewport.cols
      [] dir = "Up" -> PaneY(panes[active_terminal]) = viewport.y
      [] dir = "Down" ->
             PaneY(panes[active_terminal]) + PaneRows(panes[active_terminal])
                 = viewport.y + viewport.rows

\* C25: resize_<dir> makes the share of the active pane greater only if there
\* is a pane directly adjacent on that side and every such pane has a Percent
\* dimension on the axis of at least twice RESIZE_PERCENT; a pane flush with
\* the edge of the viewport on that side is not grown.
C25_GrowOnlyIfPermitted ==
    [][\A dir \in Sides :
         \/ active_terminal \notin DOMAIN panes \cap DOMAIN panes'
         \/ panicked'
         \/ ActiveShare(panes', dir) <= ActiveShare(panes, dir)
         \/ /\ DirectlyAdjacent(dir) # {}
            /\ \A i \in DirectlyAdjacent(dir) :
                   /\ ~AxisDim(panes[i].geom, dir).fixed
                   /\ AxisDim(panes[i].geom, dir).v - RESIZE_PERCENT >= RESIZE_PERCENT
            /\ ~FlushWithEdge(dir)
         \/ ~Resize(dir)]_vars

\* the narrow column C is active and has grown to the left at the cost of B,
\* the one pane against its left side; the edge of the viewport is on its
\* right
C25_Witness ==
    /\ LaidOutState /\ DOMAIN panes = {1, 2, 3} /\ active_terminal = 3
    /\ DirectlyAdjacent("Left") = {2} /\ FlushWithEdge("Right")
    /\ panes[3].geom.cols.v = NarrowShare + RESIZE_PERCENT
    /\ panes[2].geom.cols.v = 50 * PercentUnit - NarrowShare - RESIZE_PERCENT
    /\ sent = <<Render(DOMAIN panes)>>

(***************************************************************************)
(* Properties of new_pane.                                                 *)
(***************************************************************************)
\* the predicate and the score of the choice, on the cells of a pane
Eligible(p) ==
    /\ PaneCols(p) >= 5
    /\ PaneRows(p) >= 5
    /\ (PaneCols(p) > 10 \/ PaneRows(p) > 10)
Score(p) == PaneRows(p) * 4 * PaneCols(p)
\* the panes of ps whose shares differ in the tab after the step
SplitPanes(ps) ==
    {i \in DOMAIN ps \cap DOMAIN panes' : Shares(panes')[i] # Shares(ps)[i]}

\* C26: when new_pane installs its pane on a tab that has panes, exactly one
\* pane is split; on the tab as it is after the prologue, that pane has at
\* least 5 columns and 5 rows and more than 10 of one of them, and no pane
\* with these properties has a greater score rows * 4 * cols.
C26_SplitsLargest ==
    [][\A pid \in PaneIds \ DOMAIN panes :
         \/ DOMAIN panes = {}
         \/ ~Accepted(pid)
         \/ ~NewPane(pid)
         \/ \A b \in {BeforeSplit(Tab)} :
                /\ Cardinality(SplitPanes(b.panes)) = 1
                /\ \A i \in SplitPanes(b.panes) :
                       /\ Eligible(b.panes[i])
                       /\ \A j \in DOMAIN b.panes :
                              Eligible(b.panes[j])
                                  => Score(b.panes[j]) <= Score(b.panes[i])]_vars

\* pane 2, larger than pane 1, has been split by new_pane: its halves, of which
\* pane 3 is the newest pane and the active one, together exceed pane 1
C26_Witness ==
    /\ LaidOutState /\ DOMAIN panes = {1, 2, 3} /\ active_terminal = 3
    /\ sent = <<Render(DOMAIN panes)>>
    /\ \/ /\ panes[3].geom.y = panes[2].geom.y
          /\ panes[3].geom.x = panes[2].geom.x + PaneCols(panes[2])
          /\ PaneRows(panes[3]) = PaneRows(panes[2])
       \/ /\ panes[3].geom.x = panes[2].geom.x
          /\ panes[3].geom.y = panes[2].geom.y + PaneRows(panes[2])
          /\ PaneCols(panes[3]) = PaneCols(panes[2])
    /\ Score(panes[1]) < Score(panes[2]) + Score(panes[3])
    /\ \A i \in DOMAIN panes : panes[3].active_at >= panes[i].active_at

\* pane pid lies below pane i and has its columns, or right of it and has its rows
NewPaneBelow(i, pid) ==
    /\ panes'[pid].geom.x = panes'[i].geom.x
    /\ panes'[pid].geom.y = panes'[i].geom.y + PaneRows(panes'[i])
    /\ PaneCols(panes'[pid]) = PaneCols(panes'[i])
NewPaneRightOf(i, pid) ==
    /\ panes'[pid].geom.y = panes'[i].geom.y
    /\ panes'[pid].geom.x = panes'[i].geom.x + PaneCols(panes'[i])
    /\ PaneRows(panes'[pid]) = PaneRows(panes'[i])

\* C27: when new_pane has chosen a pane to split, the new pane is installed:
\* below the chosen pane when rows * 4 > cols and rows > 10 held of it, and
\* right of it otherwise.
C27_ChosenIsSplit ==
    [][\A pid \in PaneIds \ DOMAIN panes :
         \/ DOMAIN panes = {}
         \/ ~NewPane(pid)
         \/ \A b \in {BeforeSplit(Tab)} :
                \/ b.panicked
                \/ terminal_id_to_split(b) = None
                \/ \A i \in {terminal_id_to_split(b)} :
                       /\ Accepted(pid)
                       /\ IF /\ PaneRows(b.panes[i]) * 4 > PaneCols(b.panes[i])
                             /\ PaneRows(b.panes[i]) > 10
                          THEN NewPaneBelow(i, pid)
                          ELSE NewPaneRightOf(i, pid)]_vars

(***************************************************************************)
(* Properties of the operations invoked in fullscreen.                     *)
(***************************************************************************)
\* new_pane, horizontal_split, vertical_split or close_pane has run
SplitsOrCloses ==
    \/ \E pid \in PaneIds \ DOMAIN panes :
           NewPane(pid) \/ HorizontalSplit(pid) \/ VerticalSplit(pid)
    \/ \E id \in PaneIds : ClosePane(id)
\* the tab after the step is out of fullscreen
OutOfFullscreen ==
    /\ ~fullscreen_is_active'
    /\ panes_to_hide' = {}
    /\ \A i \in DOMAIN panes' : panes'[i].geom_override = NoGeom

\* C28: when new_pane, horizontal_split, vertical_split or close_pane returns
\* from a call made in fullscreen, fullscreen_is_active is false,
\* panes_to_hide is empty and no pane has a geometry override.
C28_ExitsFullscreenFirst ==
    [][\/ ~fullscreen_is_active
       \/ panicked'
       \/ OutOfFullscreen
       \/ ~SplitsOrCloses]_vars

(***************************************************************************)
(* Properties of the focus.                                                *)
(***************************************************************************)
\* the selectable panes, and their row-major order: by y, then by x, panes
\* at the same place by id
Selectable == {i \in DOMAIN panes : panes[i].selectable}
Precedes(i, j) ==
    \/ PaneY(panes[i]) < PaneY(panes[j])
    \/ PaneY(panes[i]) = PaneY(panes[j]) /\ PaneX(panes[i]) < PaneX(panes[j])
    \/ PaneY(panes[i]) = PaneY(panes[j]) /\ PaneX(panes[i]) = PaneX(panes[j]) /\ i < j
First(ids) == CHOOSE i \in ids : \A j \in ids \ {i} : Precedes(i, j)
Last(ids) == CHOOSE i \in ids : \A j \in ids \ {i} : Precedes(j, i)
\* the selectable pane after the active one, the first after the last
Following ==
    LET after == {j \in Selectable : Precedes(active_terminal, j)}
    IN  IF after = {} THEN First(Selectable) ELSE First(after)
\* the selectable pane before the active one, the last before the first
Preceding ==
    LET before == {j \in Selectable : Precedes(j, active_terminal)}
    IN  IF before = {} THEN Last(Selectable) ELSE Last(before)
\* neither focus_next_pane nor focus_previous_pane has made a pane active that
\* is not selectable
FocusStaysSelectable ==
    \/ panicked'
    \/ active_terminal' = active_terminal
    \/ active_terminal' \in Selectable
    \/ ~(FocusNextPane \/ FocusPreviousPane)

\* C29 as claimed: whenever the active pane is a selectable pane,
\* focus_next_pane makes the selectable pane after it in row-major order
\* active, the first after the last, and focus_previous_pane the one before
\* it, the last before the first; neither makes a non-selectable pane active.
C29_FocusInRowMajorOrder ==
    [][/\ \/ active_terminal \notin Selectable
          \/ (~panicked' /\ active_terminal' = Following)
          \/ ~FocusNextPane
       /\ \/ active_terminal \notin Selectable
          \/ (~panicked' /\ active_terminal' = Preceding)
          \/ ~FocusPreviousPane
       /\ FocusStaysSelectable]_vars

\* C29, amended: the same outside fullscreen; in fullscreen focus_next_pane
\* and focus_previous_pane leave the active pane as it is.
C29_FocusInRowMajorOrderOutsideFullscreen ==
    [][/\ \/ active_terminal \notin Selectable
          \/ fullscreen_is_active
          \/ (~panicked' /\ active_terminal' = Following)
          \/ ~FocusNextPane
       /\ \/ active_terminal \notin Selectable
          \/ fullscreen_is_active
          \/ (~panicked' /\ active_terminal' = Preceding)
          \/ ~FocusPreviousPane
       /\ \/ ~fullscreen_is_active
          \/ (~panicked' /\ active_terminal' = active_terminal)
          \/ ~(FocusNextPane \/ FocusPreviousPane)
       /\ FocusStaysSelectable]_vars

\* the focus has gone from pane 3 to pane 1, the two selectable panes of a tab
\* of three panes, and pane 2, which is not selectable, was active before both
C29_Witness ==
    /\ ~fullscreen_is_active /\ ~panicked
    /\ DOMAIN panes = {1, 2, 3} /\ Selectable = {1, 3}
    /\ active_terminal = 1
    /\ Precedes(1, 3)
    /\ panes[2].active_at < panes[3].active_at
    /\ panes[3].active_at < panes[1].active_at
    /\ sent = <<Render(DOMAIN panes)>>

\* the half-open ranges [a, a + la) and [c, c + lc) have a cell in common
RangesOverlap(a, la, c, lc) == a < c + lc /\ c < a + la
\* pane p is directly adjacent to pane c on the side dir of c, and its
\* orthogonal range overlaps that of c
NextTo(p, c, dir) ==
    CASE dir = "Left" ->
             /\ PaneX(p) + PaneCols(p) = PaneX(c)
             /\ RangesOverlap(PaneY(p), PaneRows(p), PaneY(c), PaneRows(c))
      [] dir = "Right" ->
             /\ PaneX(p) = PaneX(c) + PaneCols(c)
             /\ RangesOverlap(PaneY(p), PaneRows(p), PaneY(c), PaneRows(c))
      [] dir = "Up" ->
             /\ PaneY(p) + PaneRows(p) = PaneY(c)
             /\ RangesOverlap(PaneX(p), PaneCols(p), PaneX(c), PaneCols(c))
      [] dir = "Down" ->
             /\ PaneY(p) = PaneY(c) + PaneRows(c)
             /\ RangesOverlap(PaneX(p), PaneCols(p), PaneX(c), PaneCols(c))
\* the selectable panes the focus can move to on the side dir
FocusCandidates(dir) ==
    {i \in Selectable : NextTo(panes[i], panes[active_terminal], dir)}
\* move_focus_<dir> has run
MoveFocus(dir) ==
    CASE dir = "Left" -> MoveFocusLeft
      [] dir = "Right" -> MoveFocusRight
      [] dir = "Up" -> MoveFocusUp
      [] dir = "Down" -> MoveFocusDown
\* the active pane of the next state is a candidate active most recently, or
\* the active pane of this state when there is no candidate
FocusMoved(dir) ==
    /\ ~panicked'
    /\ IF FocusCandidates(dir) = {}
       THEN active_terminal' = active_terminal
       ELSE /\ active_terminal' \in FocusCandidates(dir)
            /\ \A j \in FocusCandidates(dir) :
                   panes[j].active_at <= panes[active_terminal'].active_at

\* C30: move_focus_<dir> makes active, among the selectable panes directly
\* adjacent to the active pane on that side whose orthogonal range overlaps
\* it, one that was active most recently, and leaves the active pane as it is
\* when there is none; move_focus_left and move_focus_right return true
\* exactly when the active pane has changed.
C30_MoveFocus ==
    [][/\ \A dir \in Sides :
              \/ active_terminal \notin DOMAIN panes
              \/ FocusMoved(dir)
              \/ ~MoveFocus(dir)
       /\ \/ active_terminal \notin DOMAIN panes
          \/ (MovesFocusLeft(Tab) <=> active_terminal' # active_terminal)
          \/ ~MoveFocusLeft
       /\ \/ active_terminal \notin DOMAIN panes
          \/ (MovesFocusRight(Tab) <=> active_terminal' # active_terminal)
          \/ ~MoveFocusRight]_vars

(***************************************************************************)
(* Properties of fullscreen and of the hidden panes.                       *)
(***************************************************************************)
\* the selectable panes inside the viewport other than the active one
SelectableInView ==
    {i \in Selectable \ {active_terminal} : is_inside_viewport(Tab, i)}

\* C31: outside fullscreen, toggle_active_pane_fullscreen changes nothing of
\* fullscreen when no selectable pane other than the active one is inside
\* the viewport (fullscreen_is_active stays false, panes_to_hide stays empty,
\* no pane gets an override), and when it enters fullscreen the panes it
\* hides are selectable panes inside the viewport other than the active one.
C31_HidesSelectableOnly ==
    [][\/ fullscreen_is_active
       \/ active_terminal \notin DOMAIN panes
       \/ panicked'
       \/ IF SelectableInView = {}
          THEN OutOfFullscreen
          ELSE panes_to_hide' \subseteq SelectableInView
       \/ ~ToggleActivePaneFullscreen]_vars

(***************************************************************************)
(* Properties of the bands of close_pane.                                  *)
(***************************************************************************)
\* the first cell and the cell after the last of pane p, across the side
SpanLow(p, side) == IF side \in {"Left", "Right"} THEN PaneY(p) ELSE PaneX(p)
SpanHigh(p, side) ==
    IF side \in {"Left", "Right"} THEN PaneY(p) + PaneRows(p)
    ELSE PaneX(p) + PaneCols(p)
\* the panes directly adjacent to pane id on the side that lie within its span
WithinSpan(id, side) ==
    {i \in DOMAIN panes \ {id} :
        /\ LiesAgainst(panes[i], panes[id], side)
        /\ SpanLow(panes[i], side) >= SpanLow(panes[id], side)
        /\ SpanHigh(panes[i], side) <= SpanHigh(panes[id], side)}
\* these panes are a band: there are some, and their outer borders are the
\* borders of pane id
IsBand(id, side) ==
    /\ WithinSpan(id, side) # {}
    /\ \E i \in WithinSpan(id, side) : SpanLow(panes[i], side) = SpanLow(panes[id], side)
    /\ \E i \in WithinSpan(id, side) : SpanHigh(panes[i], side) = SpanHigh(panes[id], side)
\* the sides of pane id that have a band, in the order of close_pane
BandSides(id) == SelectSeq(CloseOrder, LAMBDA side : IsBand(id, side))
\* the panes whose shares the step has changed
Regrown == {i \in DOMAIN panes \cap DOMAIN panes' : Shares(panes')[i] # Shares(panes)[i]}

\* C32: outside fullscreen, close_pane of a pane of Percent columns and rows
\* gives its share to the panes of one band, the first of its sides in the
\* order left, right, above, below on which the directly adjacent panes
\* within its span are a band, and changes the shares of no other pane; when
\* no side has a band the shares of no pane change.
C32_FirstBandReclaims ==
    [][\A id \in DOMAIN panes :
         \/ fullscreen_is_active
         \/ panes[id].geom.cols.fixed \/ panes[id].geom.rows.fixed
         \/ /\ ~panicked'
            /\ IF BandSides(id) = <<>> THEN Regrown = {}
               ELSE /\ Regrown = WithinSpan(id, BandSides(id)[1])
                    /\ Reclaimed(id, BandSides(id)[1], Regrown)
         \/ ~ClosePane(id)]_vars

\* the tab once close_pane has left fullscreen
BeforeClose ==
    IF fullscreen_is_active THEN toggle_active_pane_fullscreen(Tab) ELSE Tab
\* id is the last selectable pane of the band
LastSelectableOf(band, id) ==
    \E k \in 1 .. Len(band) :
        /\ band[k] = id
        /\ panes[id].selectable
        /\ \A j \in (k + 1) .. Len(band) : ~panes[band[j]].selectable
\* some pane of the band is selectable
HasSelectable(band) == \E k \in 1 .. Len(band) : panes[band[k]].selectable

\* C33: when close_pane removes the active pane through a band that has a
\* selectable pane, the last selectable pane of the band becomes the active
\* pane; when close_pane removes a pane that is not the active pane, the
\* active pane id is unchanged.
C33_FocusAfterClose ==
    [][\A id \in DOMAIN panes :
         \/ panicked'
         \/ /\ id # active_terminal => active_terminal' = active_terminal
            /\ \A b \in {BeforeClose} :
                   \/ id # active_terminal
                   \/ b.panicked
                   \/ b.panes[id].geom.cols.fixed \/ b.panes[id].geom.rows.fixed
                   \/ ClosingSide(b, id) = NoSide
                   \/ \A band \in {panes_between_aligning_borders(b, ClosingSide(b, id), id).ids} :
                          HasSelectable(band) => LastSelectableOf(band, active_terminal')
         \/ ~ClosePane(id)]_vars

\* pane 2, the active pane, has been closed into the band of the panes 1 and
\* 3 above or below it; pane 3 is not selectable and pane 1 has become active
C33_Witness ==
    /\ ~fullscreen_is_active /\ ~panicked
    /\ DOMAIN panes = {1, 3} /\ Selectable = {1}
    /\ active_terminal = 1
    /\ panes[1].geom.rows.v = 100 * PercentUnit
    /\ panes[3].geom.rows.v = 100 * PercentUnit
    /\ panes[1].geom.cols.v + panes[3].geom.cols.v = 100 * PercentUnit
    /\ sent = <<>>

(***************************************************************************)
(* Properties of resize_whole_tab.                                         *)
(***************************************************************************)
\* the resizer lays the columns out in size.cols cells, and then the rows in
\* size.rows cells
ColsResized(size) == PaneResizer_resize(panes, "Horizontal", size.cols).ok
RowsResized(size) ==
    PaneResizer_resize(ResizeCols(Tab, size).panes, "Vertical", size.rows).ok
\* an axis of the tab has kept its size, or has taken the size s
AxisKept(axis) ==
    /\ display_area'[axis] = display_area[axis]
    /\ viewport'[axis] = viewport[axis]
AxisTaken(axis, s) ==
    /\ display_area'[axis] = s
    /\ viewport'[axis] - viewport[axis] = s - display_area[axis]

ShareOn(ps, i, dir) == AxisDim(ps[i].geom, dir).v
\* the panes whose share on the axis of dir the step has made greater, and
\* those whose share it has made smaller, by RESIZE_PERCENT
Grown(dir) ==
    {i \in DOMAIN panes \cap DOMAIN panes' :
        ShareOn(panes', i, dir) = ShareOn(panes, i, dir) + RESIZE_PERCENT}
Shrunk(dir) ==
    {i \in DOMAIN panes \cap DOMAIN panes' :
        ShareOn(panes', i, dir) = ShareOn(panes, i, dir) - RESIZE_PERCENT}
\* the neighbours of the active pane on the side dir between the borders of
\* its two bands, and the panes of the two bands
NeighboursBetween(dir) == Range(Surroundings(Tab, active_terminal, dir).neighbours)
SideBands(dir) == Range(Surroundings(Tab, active_terminal, dir).bands)
\* the cells the panes ids span along the side dir
Extent(ids, dir) ==
    {c \in 0 .. DisplayCols + DisplayRows :
        \E i \in ids : /\ Pos(panes[i], AxisAlong(dir)) <= c
                       /\ c < End(panes[i], AxisAlong(dir))}

\* C35: when resize_<dir> grows the active pane, the panes it shrinks are
\* the directly adjacent panes on that side between the borders of the two
\* bands; they span the extent of the active pane and its bands, every pane
\* that has grown faces on that side only panes that have shrunk, and every
\* pane that has shrunk faces on the other side only panes that have grown.
C35_CascadeIsRectangular ==
    [][\A dir \in Sides :
         \/ active_terminal \notin DOMAIN panes
         \/ ~GrowPermitted(dir)
         \/ /\ Shrunk(dir) = NeighboursBetween(dir)
            /\ Extent(NeighboursBetween(dir), dir)
                   = Extent({active_terminal} \cup SideBands(dir), dir)
            /\ \A g \in Grown(dir), q \in DOMAIN panes :
                   NextTo(panes[q], panes[g], dir) => q \in Shrunk(dir)
            /\ \A n \in Shrunk(dir), q \in DOMAIN panes :
                   NextTo(panes[q], panes[n], Opposite(dir)) => q \in Grown(dir)
         \/ ~Resize(dir)]_vars

(***************************************************************************)
(* Properties of the focus while a pane is fullscreen.                     *)
(***************************************************************************)
\* C36: while fullscreen_is_active, move_focus, focus_next_pane,
\* focus_previous_pane and move_focus_left / right / up / down leave the
\* active pane and the rest of the tab as they are and send nothing, and
\* move_focus_left / right return false.
C36_FocusRestsInFullscreen ==
    fullscreen_is_active =>
        /\ move_focus(Tab) = Tab
        /\ focus_next_pane(Tab) = Tab
        /\ focus_previous_pane(Tab) = Tab
        /\ move_focus_left(Tab) = Tab /\ ~MovesFocusLeft(Tab)
        /\ move_focus_right(Tab) = Tab /\ ~MovesFocusRight(Tab)
        /\ move_focus_up(Tab) = Tab
        /\ move_focus_down(Tab) = Tab
\* a pane is fullscreen over another selectable pane, and the last operation
\* has sent nothing
C36_Witness ==
    /\ fullscreen_is_active
    /\ Cardinality(Selectable) = 2
    /\ steps = 3
    /\ sent = <<>>

\* C37: while fullscreen_is_active is false no pane has a geometry override
\* and panes_to_hide is empty; the pane that was given the override has lost
\* it on exit, also when the active pane changed during fullscreen.
C37_NothingLeftOfFullscreen ==
    ~fullscreen_is_active =>
        /\ \A i \in DOMAIN panes : panes[i].geom_override = NoGeom
        /\ panes_to_hide = {}

(***************************************************************************)
(* Properties of the active pane and of the hidden panes.                  *)
(***************************************************************************)
\* C38: whenever the tab has a selectable pane and fullscreen is off, the
\* active pane is set and is a selectable pane of the pane map, so that
\* move_focus, focus_next_pane and focus_previous_pane do not fail.
C38_ActiveIsSelectable ==
    (Selectable # {} /\ ~fullscreen_is_active) =>
        /\ active_terminal \in Selectable
        /\ ~move_focus(Tab).panicked
        /\ ~focus_next_pane(Tab).panicked
        /\ ~focus_previous_pane(Tab).panicked

\* C39: panes_to_hide holds keys of the pane map only, and not the active
\* pane, so that leaving fullscreen does not fail; also when panes are closed
\* or made non-selectable during fullscreen.
C39_HiddenAreOtherPanes ==
    /\ panes_to_hide \subseteq DOMAIN panes
    /\ active_terminal \notin panes_to_hide
    /\ fullscreen_is_active => ~toggle_active_pane_fullscreen(Tab).panicked

(***************************************************************************)
(* Properties of the shares under resize_<dir>.                            *)
(***************************************************************************)
\* every Percent dimension of the panes ps is at least RESIZE_PERCENT
AboveMinimum(ps) ==
    \A i \in DOMAIN ps :
        /\ ps[i].geom.cols.fixed \/ ps[i].geom.cols.v >= RESIZE_PERCENT
        /\ ps[i].geom.rows.fixed \/ ps[i].geom.rows.v >= RESIZE_PERCENT

\* C40: resize_<dir> on a tab whose Percent dimensions are all at least 3.5
\* leaves every Percent dimension at least 3.5, also those of the panes of
\* the bands of a shrink cascade, which are tested in whole cells only.
C40_SharesStayAboveMinimum ==
    [][\A dir \in Sides :
         \/ ~AboveMinimum(panes)
         \/ AboveMinimum(panes')
         \/ ~Resize(dir)]_vars

=============================================================================
